---- MODULE Spec2Model ----
(***************************************************************************)
(* A model of the massive-text renderer core: the quad index buffer, the   *)
(* frame and the surface handling of renderer.rs, the glyph rasterization  *)
(* selector of glyph_param.rs, the quad batcher of quads/renderer.rs, the  *)
(* glyph atlas batcher of text_layer/atlas_sdf/renderer.rs, the run loop   *)
(* and the tasks of shell2.rs and the glyph pass of text/render_graph.rs.  *)
(***************************************************************************)
EXTENDS Integers, Sequences, FiniteSets, TLC

\* ------------------------------------------------------------------ bounds

\* The small quad counts a caller requests from the index buffer.
MaxQuads == 5

\* The payloads a GlyphClass variant carries are drawn from 0..MaxPayload.
MaxPayload == 11

\* The longest shape list handed to QuadsRenderer::prepare.
MaxShapes == 2

\* The most quads one QuadsShape holds.
MaxQuadsPerShape == 1

\* The most batches a caller of AtlasSdfRenderer::batch holds at a time.
MaxBatches == 2

\* The most glyph instances handed to one AtlasSdfRenderer::batch call.
MaxInstances == 2

\* The most times the glyph atlas reallocates its texture.
MaxAtlasGrowths == 1

\* The longest primitive list handed to Renderer::render_and_present.
MaxPrimitives == 2

\* Window and surface widths and heights are drawn from 0..MaxSize.
MaxSize == 2

\* The most scene changes the application sends in a run.
MaxSceneChanges == 2

\* The most glyphs the text of the legacy render graph is laid out to.
MaxGlyphs == 3

\* ------------------------------------------------------- program constants

\* channel(256): the slots of the scene-change channel and of the event
\* channel.
ChannelCapacity == 256

\* Width in bits of one stored index (u16).
IndexBits == 16

\* size_of::<u16>() in bytes.
SizeOfU16 == 2

\* swash::Weight::default(), the `wght` value of a regular face.
DefaultWeight == 400

\* ------------------------------------------------------------------- state

VARIABLES
    index_buffer,     \* Renderer::index_buffer, a QuadIndexBuffer
    new_quad_count,   \* argument of the last ensure_quads call
    max_requested     \* history: the largest argument of any ensure_quads call

indexVars == <<index_buffer, new_quad_count, max_requested>>

VARIABLES
    glyph_class,      \* the GlyphClass the scene layer supplies for a glyph
    param,            \* Option<GlyphRasterizationParam>: the converted class
    pipeline_kind     \* Option<Pipeline>: the pipeline chosen for the glyph

selectorVars == <<glyph_class, param, pipeline_kind>>

VARIABLES
    transforms,       \* the heap: the Matrix4 value behind each Rc<Matrix4>
    quads_renderer,   \* QuadsRenderer: its index_buffer and its layers
    shapes,           \* argument of the last QuadsRenderer::prepare call
    prepare_result    \* what the last QuadsRenderer::prepare call returned

quadsVars == <<transforms, quads_renderer, shapes, prepare_result>>

VARIABLES
    sdf_renderer,     \* AtlasSdfRenderer: its atlas and its index_buffer
    batches,          \* the QuadBatch values the caller of batch() holds
    instances,        \* the instances argument of the last batch() call
    render_batches,   \* the batches slice render() was called with in
                      \* the open pass
    pass              \* the frame's render pass: open or not, and the
                      \* commands and queue writes issued so far, in order

glyphVars == <<sdf_renderer, batches, instances, render_batches>>

VARIABLES
    surface_config,          \* Renderer::surface_config: width and height
    surface,                 \* Renderer::surface: the configuration it was
                             \* last configured with
    view_projection_buffer,  \* the matrix last written to the camera uniform
    primitives,              \* the primitives argument of the last
                             \* render_and_present call
    render_result,           \* what the last render_and_present call returned
    effects,                 \* the surface, device, queue and pass operations
                             \* of the last call or event handler, in order
    resized                  \* history: resize_surface has been called

rendererVars == <<surface_config, surface, view_projection_buffer, primitives,
                  render_result, effects, resized>>

VARIABLES
    event,                   \* the window event the run loop handled last
    exiting,                 \* window_target.exit() has been called
    redraw_requested         \* window.request_redraw() has been called and
                             \* the redraw has not been delivered yet

shellVars == <<event, exiting, redraw_requested>>

VARIABLES
    scene_channel,           \* the batches in the channel from scene_sender
                             \* to scene_receiver, oldest first
    scene_sent,              \* history: how many scene changes have been
                             \* sent; the n-th change sent is the number n
    dispatcher,              \* event_dispatcher_task: where it stands, the
                             \* batch it received, and its result
    scene_changes,           \* the pending list behind the mutex
    user_events,             \* wake-up events the event loop has not
                             \* handled yet
    applied,                 \* the scene changes apply_changes has put into
                             \* the renderer, in order
    presented,               \* history: the scene changes in the renderer
                             \* at the last frame that returned Ok
    window_events,           \* the events in the channel from event_sender
                             \* to event_receiver, counted
    application_task,        \* the spawned application task
    run                      \* Shell2::run: where it stands and its result

taskVars == <<scene_channel, scene_sent, dispatcher, scene_changes,
              user_events, applied, presented, window_events,
              application_task, run>>

driverVars == <<rendererVars, shellVars, taskVars>>

VARIABLES
    glyph_images,            \* render_graph.rs: what the glyph cache gives
                             \* for each placed glyph, an Option of an image
    graph                    \* render_graph.rs: the values of the graph's
                             \* nodes computed from glyph_images

graphVars == <<glyph_images, graph>>

vars == <<indexVars, selectorVars, quadsVars, glyphVars, pass, driverVars,
          graphVars>>

\* Option<T> is a sequence of at most one element.
None == <<>>
Some(x) == <<x>>

\* ------------------------------------------------- renderer.rs: QuadIndexBuffer

Max(a, b) == IF a >= b THEN a ELSE b

\* `x as u16`: truncation to the low 16 bits.
AsU16(x) == x % (2 ^ IndexBits)

\* const QUAD_INDICES: &'static [u16] = &[0, 1, 2, 0, 2, 3]
QUAD_INDICES == <<0, 1, 2, 0, 2, 3>>

\* size_of_val(Self::QUAD_INDICES) in bytes.
SizeOfQuadIndices == Len(QUAD_INDICES) * SizeOfU16

\* A Vec<u16> of indices is kept as the sequence of the groups of
\* Len(QUAD_INDICES) values by which generate_array extends it.
\* v.len()
VecLen(v) == Len(v) * Len(QUAD_INDICES)

\* v[p], for the position p = 0, 1, ... of the flat vector.
IndexAt(v, p) == v[(p \div Len(QUAD_INDICES)) + 1][(p % Len(QUAD_INDICES)) + 1]

\* device.create_buffer_init: a new buffer object holding the indices; `id`
\* tells buffer objects apart.
create_buffer(id, indices) == [id |-> id, contents |-> indices]

\* wgpu::Buffer::size in bytes.
BufferSize(buffer) == VecLen(buffer.contents) * SizeOfU16

\* QuadIndexBuffer::new
QuadIndexBufferNew == [buffer |-> create_buffer(0, <<>>)]

\* QuadIndexBuffer::quads
quads(self) == BufferSize(self.buffer) \div SizeOfQuadIndices

\* One element of generate_array: *i + (quad_index * 4) as u16.  The u16
\* addition cannot overflow: the truncated term is a multiple of 4 below
\* 2^16 and *i is at most 3.
GenerateIndex(quad_index, k) == QUAD_INDICES[k] + AsU16(quad_index * 4)

\* QuadIndexBuffer::generate_array: for each quad_index in 0..quads the
\* vector is extended by the mapped QUAD_INDICES.
generate_array(quad_count) ==
    [q \in 1..quad_count |->
        [k \in 1..Len(QUAD_INDICES) |-> GenerateIndex(q - 1, k)]]

\* A variant of ensure_quads without the early return: it regenerates at
\* every call.
ensure_quads_always_regenerating(self, n) ==
    [buffer |-> create_buffer(self.buffer.id + 1, generate_array(n))]

\* A variant of ensure_quads that grows by doubling.
ensure_quads_doubling(self, n) ==
    IF n <= quads(self)
    THEN self
    ELSE [buffer |-> create_buffer(self.buffer.id + 1,
                                   generate_array(Max(n, 2 * quads(self))))]

\* QuadIndexBuffer::ensure_quads
ensure_quads(self, n) ==
    IF n <= quads(self)
    THEN self
    ELSE [buffer |-> create_buffer(self.buffer.id + 1, generate_array(n))]

\* The first quad count whose last quad has an index that does not fit u16.
WrapQuads == ((2 ^ IndexBits) \div 4) + 1

\* The quad counts requested in the model: the small ones, the largest
\* count whose indices all fit 16 bits, and the first that does not.
QuadCounts == (0..MaxQuads) \cup {WrapQuads - 1, WrapQuads}

InitIndex ==
    /\ index_buffer = QuadIndexBufferNew
    /\ new_quad_count = 0
    /\ max_requested = 0

\* ---------------------------------------------------- glyph/glyph_param.rs

\* enum GlyphClass { Zoomed(_), PixelPerfect { .. }, Distorted(_) }
GlyphClassTags == {"Zoomed", "PixelPerfect", "Distorted"}

GlyphClasses == [tag : GlyphClassTags, payload : 0..MaxPayload]

\* A variant of the conversion that rasterizes zoomed glyphs as SDF.
FromGlyphClassZoomedSdf(class) ==
    [prefer_sdf |-> class.tag \in {"Zoomed", "Distorted"},
     swash |-> [hinted |-> TRUE, weight |-> DefaultWeight]]

\* impl From<GlyphClass> for GlyphRasterizationParam
FromGlyphClass(class) ==
    CASE class.tag \in {"Zoomed", "PixelPerfect"} ->
            [swash |-> [hinted |-> TRUE, weight |-> DefaultWeight],
             prefer_sdf |-> FALSE]
      [] class.tag = "Distorted" ->
            [swash |-> [hinted |-> TRUE, weight |-> DefaultWeight],
             prefer_sdf |-> TRUE]

\* A variant of pipeline() with the two branches exchanged.
pipeline_swapped(self) ==
    IF self.prefer_sdf THEN "PlanarGlyph" ELSE "SdfGlyph"

\* GlyphRasterizationParam::pipeline
pipeline(self) ==
    IF self.prefer_sdf THEN "SdfGlyph" ELSE "PlanarGlyph"

InitSelector ==
    /\ glyph_class = [tag |-> "PixelPerfect", payload |-> 0]
    /\ param = None
    /\ pipeline_kind = None

\* The scene layer supplies the class of the next glyph.
Classify ==
    /\ glyph_class' \in GlyphClasses
    /\ param' = None
    /\ pipeline_kind' = None
    /\ UNCHANGED <<indexVars, quadsVars, glyphVars, pass, driverVars,
                   graphVars>>

\* GlyphRasterizationParam::from(glyph_class)
Convert ==
    /\ param = None
    /\ param' = Some(FromGlyphClass(glyph_class))
    /\ UNCHANGED <<glyph_class, pipeline_kind>>
    /\ UNCHANGED <<indexVars, quadsVars, glyphVars, pass, driverVars,
                   graphVars>>

\* param.pipeline()
SelectPipeline ==
    /\ param # None
    /\ pipeline_kind = None
    /\ pipeline_kind' = Some(pipeline(param[1]))
    /\ UNCHANGED <<glyph_class, param>>
    /\ UNCHANGED <<indexVars, quadsVars, glyphVars, pass, driverVars,
                   graphVars>>

\* A call of ensure_quads(n).
EnsureQuads ==
    \E n \in QuadCounts :
        /\ new_quad_count' = n
        /\ max_requested' = Max(max_requested, n)
        /\ index_buffer' = ensure_quads(index_buffer, n)
        /\ UNCHANGED <<selectorVars, graphVars, quadsVars, glyphVars, pass,
                       driverVars>>

\* --------------------------------------------------- tools: QuadIndexBuffer

\* The index buffer type of the batchers (tools::QuadIndexBuffer): quad i
\* is indexed by the fixed pattern plus 4 * i.
IndexPattern(quad_count) ==
    [p \in 1..(quad_count * Len(QUAD_INDICES)) |->
        QUAD_INDICES[((p - 1) % Len(QUAD_INDICES)) + 1]
            + 4 * ((p - 1) \div Len(QUAD_INDICES))]

\* tools::QuadIndexBuffer::new
ToolsQuadIndexBufferNew == [contents |-> <<>>]

\* The number of quads a tools::QuadIndexBuffer can index.
IndexableQuads(self) == Len(self.contents) \div Len(QUAD_INDICES)

\* tools::QuadIndexBuffer::ensure_can_index_num_quads
ensure_can_index_num_quads(self, n) ==
    IF n <= IndexableQuads(self)
    THEN self
    ELSE [contents |-> IndexPattern(n)]

\* ------------------------------------------------------- quads/renderer.rs

\* The separately allocated transform instances (Rc<Matrix4>), named by
\* their addresses.
Handles == {"h1", "h2"}

\* The Matrix4 values a transform may hold.
MatrixValues == {"mA", "mB"}

\* *model_matrix: the matrix value a handle points to.
Deref(h) == transforms[h]

\* Quad { vertices, color }: the i-th quad of a shape.
Quad(i) == [vertices |-> <<4 * i, 4 * i + 1, 4 * i + 2, 4 * i + 3>>,
            color |-> i % 2]

\* Shape::Quads(QuadsShape { quads, model_matrix }) with n quads.
QuadsShape(h, n) ==
    [kind |-> "Quads", model_matrix |-> h, quads |-> [i \in 1..n |-> Quad(i)]]

\* Shape::GlyphRun { model_matrix, .. }
GlyphRunShape(h) ==
    [kind |-> "GlyphRun", model_matrix |-> h, quads |-> <<>>]

\* Result<T>
Ok(x) == [ok |-> TRUE, value |-> x]
Err == [ok |-> FALSE, value |-> None]

\* ColorVertex::new
ColorVertexNew(position, color) == [position |-> position, color |-> color]

\* The four vertices one quad contributes (lines 153-158).
QuadVertices(quad) ==
    <<ColorVertexNew(quad.vertices[1], quad.color),
      ColorVertexNew(quad.vertices[2], quad.color),
      ColorVertexNew(quad.vertices[3], quad.color),
      ColorVertexNew(quad.vertices[4], quad.color)>>

\* The inner loop of prepare_quads over the quads of one shape.
RECURSIVE QuadsVertices(_)
QuadsVertices(qs) ==
    IF qs = <<>> THEN <<>>
    ELSE QuadVertices(Head(qs)) \o QuadsVertices(Tail(qs))

\* The outer loop of prepare_quads over the shapes of one group.
RECURSIVE ShapesVertices(_)
ShapesVertices(group) ==
    IF group = <<>> THEN <<>>
    ELSE QuadsVertices(Head(group).quads) \o ShapesVertices(Tail(group))

\* A variant of the quad count that shifts by one bit only.
QuadCountShiftOne(vertices) == Len(vertices) \div 2

\* vertices.len() >> 2
QuadCountOf(vertices) == Len(vertices) \div 4

\* A variant of prepare_quads without the check for an empty vertex list.
prepare_quads_keeping_empty(model_matrix, group) ==
    LET vertices == ShapesVertices(group)
    IN  Ok(Some([model_matrix |-> model_matrix,
                 vertex_buffer |-> vertices,
                 quad_count |-> QuadCountOf(vertices)]))

\* QuadsRenderer::prepare_quads
prepare_quads(model_matrix, group) ==
    LET vertices == ShapesVertices(group)
    IN  IF vertices = <<>>
        THEN Ok(None)
        ELSE Ok(Some([model_matrix |-> model_matrix,
                      vertex_buffer |-> vertices,
                      quad_count |-> QuadCountOf(vertices)]))

\* A variant of the grouping key: the matrix value instead of the pointer.
ShapeKeyByValue(shape) == Deref(shape.model_matrix)

\* Rc::as_ptr(&shape.model_matrix)
ShapeKey(shape) == shape.model_matrix

\* The filter_map of prepare: the Shape::Quads entries, in input order.
QuadsShapesOf(shape_list) ==
    SelectSeq(shape_list, LAMBDA shape : shape.kind = "Quads")

\* A variant of the grouping that holds the shapes of a key last first.
into_group_map_by_reversed(shape_list) ==
    [key \in {ShapeKey(shape_list[i]) : i \in DOMAIN shape_list} |->
        LET group == SelectSeq(shape_list, LAMBDA shape : ShapeKey(shape) = key)
        IN  [i \in 1..Len(group) |-> group[Len(group) + 1 - i]]]

\* into_group_map_by: per key, the shapes with that key in input order.
into_group_map_by(shape_list) ==
    [key \in {ShapeKey(shape_list[i]) : i \in DOMAIN shape_list} |->
        SelectSeq(shape_list, LAMBDA shape : ShapeKey(shape) = key)]

\* The orders in which a HashMap may hand out its keys.
IterationOrders(keys) ==
    {order \in [1..Cardinality(keys) -> keys] :
        \A i, j \in DOMAIN order : i # j => order[i] # order[j]}

\* A variant of the clear of prepare that keeps the layers.
LayersKept(layers) == layers

\* self.layers.clear()
LayersClear(layers) == <<>>

\* The loop of prepare over the groups, in the map's iteration order; an
\* error of prepare_quads ends it at once.
RECURSIVE PrepareLoop(_, _, _)
PrepareLoop(order, grouped, acc) ==
    IF order = <<>>
    THEN acc
    ELSE LET group == grouped[Head(order)]
             matrix == Deref(group[1].model_matrix)
             result == prepare_quads(matrix, group)
         IN  IF ~result.ok
             THEN [acc EXCEPT !.ok = FALSE]
             ELSE IF result.value = None
             THEN PrepareLoop(Tail(order), grouped, acc)
             ELSE PrepareLoop(Tail(order), grouped,
                     [acc EXCEPT
                        !.max_quads = Max(@, result.value[1].quad_count),
                        !.layers = Append(@, result.value[1])])

\* A variant of prepare without the growth of the index buffer at its end.
prepare_without_index_growth(self, shape_list, order) ==
    LET grouped == into_group_map_by(QuadsShapesOf(shape_list))
        done == PrepareLoop(order, grouped,
                    [ok |-> TRUE, max_quads |-> 0,
                     layers |-> LayersClear(self.layers)])
    IN  [self |-> [self EXCEPT !.layers = done.layers],
         result |-> IF done.ok THEN "Ok" ELSE "Err"]

\* QuadsRenderer::prepare: the renderer after the call and the call's result.
prepare(self, shape_list, order) ==
    LET grouped == into_group_map_by(QuadsShapesOf(shape_list))
        done == PrepareLoop(order, grouped,
                    [ok |-> TRUE, max_quads |-> 0,
                     layers |-> LayersClear(self.layers)])
    IN  IF ~done.ok
        THEN [self |-> [self EXCEPT !.layers = done.layers],
              result |-> "Err"]
        ELSE [self |-> [index_buffer |->
                            ensure_can_index_num_quads(self.index_buffer,
                                                       done.max_quads),
                        layers |-> done.layers],
              result |-> "Ok"]

\* QuadsRenderer::new
QuadsRendererNew ==
    [index_buffer |-> ToolsQuadIndexBufferNew, layers |-> <<>>]

\* The shapes a scene holds.
ShapeOptions ==
    {QuadsShape(h, n) : h \in Handles, n \in 0..MaxQuadsPerShape}

\* The shape lists handed to prepare.
ShapeLists == UNION {[1..n -> ShapeOptions] : n \in 0..MaxShapes}

\* ------------------------------------------------------- the render pass

\* One entry of the frame's command log.
Command(cmd, slot, val) == [cmd |-> cmd, slot |-> slot, val |-> val]

\* context.view_projection_matrix * model_matrix
MatrixProduct(view_projection_matrix, model_matrix) ==
    <<view_projection_matrix, model_matrix>>

\* The view-projection matrix of the frame.
ViewProjection == "vp"

\* A variant of the loop body of render that writes the camera uniform once
\* the layer's draw has been issued.
RenderLayerWriteAfterDraw(layer) ==
    <<Command("set_bind_group", 0, "view_projection_bind_group"),
      Command("set_vertex_buffer", 0, layer.vertex_buffer),
      Command("draw_indexed", 0, Len(QUAD_INDICES) * layer.quad_count),
      Command("queue_write_view_projection", 0,
              MatrixProduct(ViewProjection, layer.model_matrix))>>

\* The commands of one iteration of the loop of QuadsRenderer::render.
RenderLayer(layer) ==
    <<Command("queue_write_view_projection", 0,
              MatrixProduct(ViewProjection, layer.model_matrix)),
      Command("set_bind_group", 0, "view_projection_bind_group"),
      Command("set_vertex_buffer", 0, layer.vertex_buffer),
      Command("draw_indexed", 0, Len(QUAD_INDICES) * layer.quad_count)>>

RECURSIVE RenderLayers(_)
RenderLayers(layers) ==
    IF layers = <<>> THEN <<>>
    ELSE RenderLayer(Head(layers)) \o RenderLayers(Tail(layers))

\* QuadsRenderer::render: the commands it issues.
quads_render(self) ==
    <<Command("set_pipeline", 0, "quads"),
      Command("set_bind_group", 0, "view_projection_bind_group"),
      Command("set_index_buffer", 0, Len(self.index_buffer.contents) * SizeOfU16)>>
    \o RenderLayers(self.layers)

\* The pipelines whose renderer has issued commands in a pass.
Rendered(p) ==
    {p.commands[i].val : i \in {j \in DOMAIN p.commands :
                                   p.commands[j].cmd = "set_pipeline"}}

InitPass == pass = [open |-> FALSE, commands |-> <<>>]

\* The frame driver opens the render pass of a frame.
BeginPass ==
    /\ ~pass.open
    /\ pass' = [open |-> TRUE, commands |-> <<>>]
    /\ UNCHANGED <<indexVars, selectorVars, graphVars, quadsVars, glyphVars,
                   driverVars>>

\* The frame driver ends the render pass; the borrow of the batches slice
\* ('rpass) ends with it.
EndPass ==
    /\ pass.open
    /\ pass' = [open |-> FALSE, commands |-> <<>>]
    /\ render_batches' = <<>>
    /\ UNCHANGED <<sdf_renderer, batches, instances>>
    /\ UNCHANGED <<indexVars, selectorVars, graphVars, quadsVars, driverVars>>

\* A call of QuadsRenderer::render in the open pass.
QuadsRender ==
    /\ pass.open
    /\ "quads" \notin Rendered(pass)
    /\ pass' = [pass EXCEPT !.commands = @ \o quads_render(quads_renderer)]
    /\ UNCHANGED <<indexVars, selectorVars, graphVars, quadsVars, glyphVars,
                   driverVars>>

InitQuads ==
    /\ quads_renderer = QuadsRendererNew
    /\ shapes = <<>>
    /\ prepare_result = "Ok"

\* A call of QuadsRenderer::prepare(shape_list).  It borrows the renderer
\* mutably, so no render pass that borrows it is alive.
Prepare(shape_list) ==
    /\ ~pass.open
    /\ \E order \in IterationOrders(
                    DOMAIN into_group_map_by(QuadsShapesOf(shape_list))) :
        LET call == prepare(quads_renderer, shape_list, order)
        IN  /\ quads_renderer' = call.self
            /\ prepare_result' = call.result
            /\ shapes' = shape_list
            /\ UNCHANGED <<transforms, indexVars, selectorVars, graphVars,
                           glyphVars, pass, driverVars>>

\* prepare with any shape list within the bounds.
PrepareAny == \E shape_list \in ShapeLists : Prepare(shape_list)

\* The shape lists of some frames: none; three quads on one transform and
\* two on another; a transform shared by two shapes around another one;
\* a glyph run, a shape without quads and a shape with one quad.
FrameShapeLists ==
    { <<>>,
      <<QuadsShape("h1", 3), QuadsShape("h2", 2)>>,
      <<QuadsShape("h1", 2), QuadsShape("h2", 2), QuadsShape("h1", 1)>>,
      <<GlyphRunShape("h1"), QuadsShape("h2", 0), QuadsShape("h1", 1)>> }

\* prepare with the shape list of one of these frames.
PrepareFrame == \E shape_list \in FrameShapeLists : Prepare(shape_list)

\* ---------------------------------------- text_layer/atlas_sdf/renderer.rs

\* The glyph atlas: its current texture and that texture's size.  A grown
\* atlas has a new texture.
GlyphAtlasNew == [texture |-> 0, size |-> 1]

\* The atlas after its texture has been reallocated at a larger size.
AtlasGrown(atlas) == [texture |-> atlas.texture + 1, size |-> 2 * atlas.size]

\* QuadInstance { atlas_rect, vertices, color }: the i-th instance of a batch.
QuadInstance(i) ==
    [atlas_rect |-> [min |-> [x |-> 8 * i, y |-> 0],
                     max |-> [x |-> 8 * i + 6, y |-> 7]],
     vertices |-> <<4 * i, 4 * i + 1, 4 * i + 2, 4 * i + 3>>,
     color |-> i % 2]

\* TextureColorVertex::new
TextureColorVertexNew(position, uv, color) ==
    [position |-> position, uv |-> uv, color |-> color]

\* The four vertices one instance contributes (lines 93-106).
InstanceVertices(instance) ==
    LET r == instance.atlas_rect
        v == instance.vertices
        color == instance.color
    IN  <<TextureColorVertexNew(v[1], <<r.min.x, r.min.y>>, color),
          TextureColorVertexNew(v[2], <<r.min.x, r.max.y>>, color),
          TextureColorVertexNew(v[3], <<r.max.x, r.max.y>>, color),
          TextureColorVertexNew(v[4], <<r.max.x, r.min.y>>, color)>>

\* The loop of batch over the instances.
RECURSIVE InstancesVertices(_)
InstancesVertices(instance_list) ==
    IF instance_list = <<>> THEN <<>>
    ELSE InstanceVertices(Head(instance_list))
            \o InstancesVertices(Tail(instance_list))

\* BindGroupLayout::create_bind_group over the atlas as it is now.
CreateBindGroup(atlas) ==
    [texture_view |-> atlas.texture,
     texture_size |-> atlas.size,
     sampler |-> "linear_clamping"]

\* A variant of batch that leaves the index buffer as it is.
batch_without_index_growth(self, model_matrix, instance_list) ==
    [self |-> self,
     batch |-> Some([model_matrix |-> model_matrix,
                     fs_bind_group |-> CreateBindGroup(self.atlas),
                     vertex_buffer |-> InstancesVertices(instance_list),
                     quad_count |-> Len(instance_list)])]

\* AtlasSdfRenderer::batch: the renderer after the call and the QuadBatch
\* it returns.
batch(self, model_matrix, instance_list) ==
    LET vertices == InstancesVertices(instance_list)
        bind_group == CreateBindGroup(self.atlas)
        quad_count == Len(instance_list)
    IN  [self |-> [self EXCEPT !.index_buffer =
                      ensure_can_index_num_quads(@, quad_count)],
         batch |-> Some([model_matrix |-> model_matrix,
                         fs_bind_group |-> bind_group,
                         vertex_buffer |-> vertices,
                         quad_count |-> quad_count])]

\* The commands of one iteration of the loop of AtlasSdfRenderer::render.
RenderBatch(b) ==
    <<Command("queue_write_view_projection", 0,
              MatrixProduct(ViewProjection, b.model_matrix)),
      Command("set_bind_group", 0, "view_projection_bind_group"),
      Command("set_bind_group", 1, b.fs_bind_group),
      Command("set_vertex_buffer", 0, b.vertex_buffer),
      Command("draw_indexed", 0, b.quad_count * Len(QUAD_INDICES))>>

RECURSIVE RenderBatches(_)
RenderBatches(batch_list) ==
    IF batch_list = <<>> THEN <<>>
    ELSE RenderBatch(Head(batch_list)) \o RenderBatches(Tail(batch_list))

\* batches.iter().map(|b| b.quad_count).max().unwrap_or_default()
RECURSIVE MaxQuadCount(_)
MaxQuadCount(batch_list) ==
    IF batch_list = <<>> THEN 0
    ELSE Max(Head(batch_list).quad_count, MaxQuadCount(Tail(batch_list)))

\* AtlasSdfRenderer::render: the commands it issues for the given batches.
sdf_render(self, batch_list) ==
    <<Command("set_pipeline", 0, "atlas_sdf"),
      Command("set_bind_group", 0, "view_projection_bind_group"),
      Command("set_index_buffer", 0,
              MaxQuadCount(batch_list) * Len(QUAD_INDICES) * SizeOfU16)>>
    \o RenderBatches(batch_list)

\* AtlasSdfRenderer::new
AtlasSdfRendererNew ==
    [atlas |-> GlyphAtlasNew, index_buffer |-> ToolsQuadIndexBufferNew]

\* The instance lists handed to batch.
InstanceLists == {[i \in 1..n |-> QuadInstance(i)] : n \in 0..MaxInstances}

\* The batches of a slice, picked in order from the ones the caller holds.
SubSequence(seq, picked) ==
    LET F[i \in 0..Len(seq)] ==
            IF i = 0 THEN <<>>
            ELSE IF i \in picked THEN Append(F[i - 1], seq[i]) ELSE F[i - 1]
    IN  F[Len(seq)]

InitGlyph ==
    /\ sdf_renderer = AtlasSdfRendererNew
    /\ batches = <<>>
    /\ instances = <<>>
    /\ render_batches = <<>>

\* A call of AtlasSdfRenderer::batch; the caller keeps the returned batch.
\* The call borrows the renderer mutably, so no render pass is alive.
Batch ==
    /\ ~pass.open
    /\ Len(batches) < MaxBatches
    /\ \E model_matrix \in MatrixValues, instance_list \in InstanceLists :
          LET call == batch(sdf_renderer, model_matrix, instance_list)
          IN  /\ sdf_renderer' = call.self
              /\ batches' = batches \o call.batch
              /\ instances' = instance_list
    /\ UNCHANGED render_batches
    /\ UNCHANGED <<indexVars, selectorVars, graphVars, quadsVars, pass,
                   driverVars>>

\* The atlas reallocates its texture while glyphs are inserted.
AtlasGrow ==
    /\ ~pass.open
    /\ sdf_renderer.atlas.texture < MaxAtlasGrowths
    /\ sdf_renderer' = [sdf_renderer EXCEPT !.atlas = AtlasGrown(@)]
    /\ UNCHANGED <<batches, instances, render_batches>>
    /\ UNCHANGED <<indexVars, selectorVars, graphVars, quadsVars, pass,
                   driverVars>>

\* A call of AtlasSdfRenderer::render in the open pass with the picked ones
\* of the batches the caller holds.
SdfRenderSlice(picked) ==
    /\ pass.open
    /\ "atlas_sdf" \notin Rendered(pass)
    /\ render_batches' = SubSequence(batches, picked)
    /\ pass' = [pass EXCEPT !.commands =
                   @ \o sdf_render(sdf_renderer, render_batches')]
    /\ UNCHANGED <<sdf_renderer, batches, instances>>
    /\ UNCHANGED <<indexVars, selectorVars, graphVars, quadsVars, driverVars>>

\* render with any slice of the batches the caller holds.
SdfRender == \E picked \in SUBSET (1..Len(batches)) : SdfRenderSlice(picked)

\* render with all the batches the caller holds.
SdfRenderAll == SdfRenderSlice(1..Len(batches))

\* The caller drops the batches of the last frame.
DropBatches ==
    /\ ~pass.open
    /\ batches # <<>>
    /\ batches' = <<>>
    /\ UNCHANGED <<sdf_renderer, instances, render_batches>>
    /\ UNCHANGED <<indexVars, selectorVars, graphVars, quadsVars, pass,
                   driverVars>>

\* ---------------------------------------------------- renderer.rs: Renderer

\* wgpu::SurfaceError
SurfaceErrors == {"Lost", "OutOfMemory", "Timeout", "Outdated"}

\* The outcomes of surface.get_current_texture().
AcquireOutcomes == {"Ok"} \cup SurfaceErrors

\* Renderer::pipelines: the pipeline kinds in the order of the list, each
\* kind once.
pipelines == <<"PlanarGlyph", "SdfGlyph", "TextLayer">>

\* Primitive::Texture(Texture { bind_group, vertex_buffer, .. }) drawn by
\* the pipeline `kind`; `id` names its bind group and its vertex buffer.
TexturePrimitive(id, kind) ==
    [variant |-> "Texture", id |-> id, pipeline |-> kind,
     model_matrix |-> None, instance_count |-> 1]

\* Primitive::TextLayer(TextLayer { fragment_shader_bind_group,
\* model_matrix, vertex_buffer, instance_buffer, instance_count })
TextLayerPrimitive(id, model_matrix) ==
    [variant |-> "TextLayer", id |-> id, pipeline |-> "TextLayer",
     model_matrix |-> Some(model_matrix), instance_count |-> id]

\* Primitive::pipeline
PrimitivePipeline(p) == p.pipeline

\* Primitive::quads: each primitive is drawn with the indices of one quad.
PrimitiveQuads(p) == 1

\* primitives.iter().map(|p| p.quads()).max().unwrap_or_default()
RECURSIVE MaxPrimitiveQuads(_)
MaxPrimitiveQuads(prims) ==
    IF prims = <<>> THEN 0
    ELSE Max(PrimitiveQuads(Head(prims)), MaxPrimitiveQuads(Tail(prims)))

\* The body of the match on one primitive (lines 158-199).
DrawPrimitive(view_projection_matrix, p) ==
    IF p.variant = "Texture"
    THEN <<Command("set_bind_group", 1, [primitive |-> p.id]),
           Command("set_vertex_buffer", 0, [primitive |-> p.id]),
           Command("draw_indexed", 0,
                   [indices |-> Len(QUAD_INDICES), instances |-> 1])>>
    ELSE <<Command("queue_write_view_projection", 0,
                   MatrixProduct(view_projection_matrix, p.model_matrix[1])),
           Command("set_bind_group", 0, "view_projection_bind_group"),
           Command("set_bind_group", 1, [primitive |-> p.id]),
           Command("set_vertex_buffer", 0, [primitive |-> p.id]),
           Command("set_vertex_buffer", 1, [primitive |-> p.id]),
           Command("draw_indexed", 0,
                   [indices |-> Len(QUAD_INDICES),
                    instances |-> p.instance_count])>>

RECURSIVE DrawPrimitives(_, _)
DrawPrimitives(view_projection_matrix, prims) ==
    IF prims = <<>> THEN <<>>
    ELSE DrawPrimitive(view_projection_matrix, Head(prims))
            \o DrawPrimitives(view_projection_matrix, Tail(prims))

\* A variant of the filter of the inner loop that lets every primitive
\* through.
PrimitivesOfAnyKind(prims, kind) == prims

\* primitives.iter().filter(|p| p.pipeline() == kind)
PrimitivesOfKind(prims, kind) ==
    SelectSeq(prims, LAMBDA p : PrimitivePipeline(p) = kind)

\* One iteration of the loop over self.pipelines (lines 147-201).
DrawPipeline(ib, view_projection_matrix, prims, kind) ==
    <<Command("set_pipeline", 0, kind),
      Command("set_bind_group", 0, "view_projection_bind_group"),
      Command("set_index_buffer", 0, ib.buffer.id)>>
    \o DrawPrimitives(view_projection_matrix, PrimitivesOfKind(prims, kind))

RECURSIVE DrawPipelines(_, _, _, _)
DrawPipelines(ib, view_projection_matrix, prims, kinds) ==
    IF kinds = <<>> THEN <<>>
    ELSE DrawPipeline(ib, view_projection_matrix, prims, Head(kinds))
            \o DrawPipelines(ib, view_projection_matrix, prims, Tail(kinds))

\* A variant of the frame that prepares the index buffer after the render
\* pass has begun.
RenderFrameGrowingInPass(ib, view_projection_matrix, prims) ==
    LET grown == ensure_quads(ib, MaxPrimitiveQuads(prims))
    IN  [index_buffer |-> grown,
         effects |->
            <<Command("queue_write_view_projection", 0,
                      view_projection_matrix),
              Command("create_command_encoder", 0, "encoder"),
              Command("begin_render_pass", 0, "surface_view")>>
            \o (IF grown = ib THEN <<>>
                ELSE <<Command("create_buffer", 0, grown.buffer.id)>>)
            \o DrawPipelines(grown, view_projection_matrix, prims, pipelines)
            \o <<Command("end_render_pass", 0, "surface_view"),
                 Command("finish", 0, "command_buffer"),
                 Command("submit", 0, "command_buffer"),
                 Command("present", 0, "surface_texture")>>]

\* A variant of the frame that presents the surface texture without having
\* submitted the command buffer.
RenderFrameWithoutSubmit(ib, view_projection_matrix, prims) ==
    LET grown == ensure_quads(ib, MaxPrimitiveQuads(prims))
    IN  [index_buffer |-> grown,
         effects |->
            <<Command("queue_write_view_projection", 0,
                      view_projection_matrix),
              Command("create_command_encoder", 0, "encoder"),
              Command("begin_render_pass", 0, "surface_view")>>
            \o DrawPipelines(grown, view_projection_matrix, prims, pipelines)
            \o <<Command("end_render_pass", 0, "surface_view"),
                 Command("finish", 0, "command_buffer"),
                 Command("present", 0, "surface_texture")>>]

\* The part of render_and_present after the surface texture has been
\* acquired (lines 107-208): the index buffer afterwards and the operations
\* issued, in order.
RenderFrame(ib, view_projection_matrix, prims) ==
    LET grown == ensure_quads(ib, MaxPrimitiveQuads(prims))
    IN  [index_buffer |-> grown,
         effects |->
            (IF grown = ib THEN <<>>
             ELSE <<Command("create_buffer", 0, grown.buffer.id)>>)
            \o <<Command("queue_write_view_projection", 0,
                         view_projection_matrix),
                 Command("create_command_encoder", 0, "encoder"),
                 Command("begin_render_pass", 0, "surface_view")>>
            \o DrawPipelines(grown, view_projection_matrix, prims, pipelines)
            \o <<Command("end_render_pass", 0, "surface_view"),
                 Command("finish", 0, "command_buffer"),
                 Command("submit", 0, "command_buffer"),
                 Command("present", 0, "surface_texture")>>]

\* A variant of render_and_present that prepares the index buffer and
\* writes the camera uniform before it acquires the surface texture.
render_and_present_preparing_first(ib, outcome, view_projection_matrix, prims) ==
    LET grown == ensure_quads(ib, MaxPrimitiveQuads(prims))
        frame == RenderFrame(ib, view_projection_matrix, prims)
    IN  IF outcome \in SurfaceErrors
        THEN [index_buffer |-> grown,
              result |-> outcome,
              effects |->
                 <<Command("queue_write_view_projection", 0,
                           view_projection_matrix),
                   Command("get_current_texture", 0, outcome)>>]
        ELSE [index_buffer |-> frame.index_buffer,
              result |-> "Ok",
              effects |-> <<Command("get_current_texture", 0, outcome)>>
                             \o frame.effects]

\* Renderer::render_and_present: the index buffer after the call, what the
\* call returns and the operations it issues.  `outcome` is what
\* surface.get_current_texture() gives.
render_and_present(ib, outcome, view_projection_matrix, prims) ==
    LET frame == RenderFrame(ib, view_projection_matrix, prims)
    IN  IF outcome \in SurfaceErrors
        THEN [index_buffer |-> ib,
              result |-> outcome,
              effects |-> <<Command("get_current_texture", 0, outcome)>>]
        ELSE [index_buffer |-> frame.index_buffer,
              result |-> "Ok",
              effects |-> <<Command("get_current_texture", 0, outcome)>>
                             \o frame.effects]

\* The matrix the camera uniform holds once the queue writes of `log` are
\* done, `old` being what it held before.
UniformAfter(old, log) ==
    LET writes == {i \in DOMAIN log :
                      log[i].cmd = "queue_write_view_projection"}
    IN  IF writes = {} THEN old
        ELSE Some(log[CHOOSE i \in writes : \A j \in writes : j <= i].val)

\* Renderer::reconfigure_surface: self.surface.configure(device, config)
reconfigure_surface(config) ==
    [surface |-> [config |-> config],
     effects |-> <<Command("surface_configure", 0, config)>>]

\* A variant of resize_surface without the clamp to 1.
resize_surface_unclamped(config, new_size) ==
    IF new_size = <<config.width, config.height>>
    THEN [surface_config |-> config, reconfigured |-> FALSE]
    ELSE [surface_config |-> [config EXCEPT !.width = new_size[1],
                                            !.height = new_size[2]],
          reconfigured |-> TRUE]

\* Renderer::surface_size
surface_size(config) == <<config.width, config.height>>

\* Renderer::resize_surface: the configuration after the call and whether
\* the call went on to reconfigure_surface.
resize_surface(config, new_size) ==
    LET new_surface_size == <<Max(new_size[1], 1), Max(new_size[2], 1)>>
    IN  IF new_surface_size = surface_size(config)
        THEN [surface_config |-> config, reconfigured |-> FALSE]
        ELSE [surface_config |-> [config EXCEPT !.width = new_surface_size[1],
                                                !.height = new_surface_size[2]],
              reconfigured |-> TRUE]

\* The primitives of a frame: textures of either glyph pipeline and text
\* layers of either model matrix; the n-th primitive has the id n.
PrimitiveOptions(id) ==
    {TexturePrimitive(id, kind) : kind \in {"PlanarGlyph", "SdfGlyph"}}
        \cup {TextLayerPrimitive(id, m) : m \in MatrixValues}

\* The primitive lists handed to render_and_present.
PrimitiveLists ==
    UNION {{prims \in [1..n -> UNION {PrimitiveOptions(id) : id \in 1..n}] :
               \A id \in 1..n : prims[id].id = id} : n \in 0..MaxPrimitives}

\* The window and surface sizes.
Sizes == (0..MaxSize) \X (0..MaxSize)

\* Renderer::new with a surface configuration of the size `initial_size`
\* (shell2.rs:119-132): the surface is configured with it as it is.
InitSurface(initial_size) ==
    /\ surface_config = [width |-> initial_size[1], height |-> initial_size[2]]
    /\ surface = [config |-> surface_config]
    /\ view_projection_buffer = None
    /\ primitives = <<>>
    /\ render_result = None
    /\ effects = <<>>
    /\ resized = FALSE

\* A call of render_and_present(view_projection_matrix, prims) at which
\* the acquisition of the surface texture has the given outcome.
RenderAndPresent(outcome, prims) ==
    LET call == render_and_present(index_buffer, outcome, ViewProjection, prims)
    IN  /\ index_buffer' = call.index_buffer
        /\ new_quad_count' = IF call.result = "Ok"
                             THEN MaxPrimitiveQuads(prims)
                             ELSE new_quad_count
        /\ max_requested' = Max(max_requested, new_quad_count')
        /\ view_projection_buffer'
              = UniformAfter(view_projection_buffer, call.effects)
        /\ primitives' = prims
        /\ render_result' = Some(call.result)
        /\ effects' = call.effects
        /\ UNCHANGED <<surface_config, surface, resized>>

\* render_and_present with any primitive list and any acquisition outcome.
RenderAndPresentAny ==
    /\ \E outcome \in AcquireOutcomes, prims \in PrimitiveLists :
          RenderAndPresent(outcome, prims)
    /\ UNCHANGED <<selectorVars, graphVars, quadsVars, glyphVars, pass,
                   shellVars, taskVars>>

\* The orders in which self.pipelines, as pipelines::create built it, may
\* hold the pipeline kinds.
PipelineOrders ==
    {order \in [1..Len(pipelines) -> {pipelines[k] : k \in DOMAIN pipelines}] :
        \A i, j \in DOMAIN order : order[i] = order[j] => i = j}

\* The operations of a render_and_present call whose loop over
\* self.pipelines (lines 147-201) visits the kinds in the order `kinds`.
WithPipelineOrder(log, ib, view_projection_matrix, prims, kinds) ==
    LET begins == {i \in DOMAIN log : log[i].cmd = "begin_render_pass"}
        ends == {i \in DOMAIN log : log[i].cmd = "end_render_pass"}
    IN  IF begins = {} THEN log
        ELSE SubSeq(log, 1, CHOOSE i \in begins : TRUE)
                \o DrawPipelines(ib, view_projection_matrix, prims, kinds)
                \o SubSeq(log, CHOOSE i \in ends : TRUE, Len(log))

\* A call of render_and_present by a renderer whose pipeline list has the
\* order `kinds`.
RenderAndPresentInOrder(kinds, outcome, prims) ==
    LET call == render_and_present(index_buffer, outcome, ViewProjection, prims)
    IN  /\ index_buffer' = call.index_buffer
        /\ new_quad_count' = IF call.result = "Ok"
                             THEN MaxPrimitiveQuads(prims)
                             ELSE new_quad_count
        /\ max_requested' = Max(max_requested, new_quad_count')
        /\ effects' = WithPipelineOrder(call.effects, call.index_buffer,
                                        ViewProjection, prims, kinds)
        /\ view_projection_buffer'
              = UniformAfter(view_projection_buffer, effects')
        /\ primitives' = prims
        /\ render_result' = Some(call.result)
        /\ UNCHANGED <<surface_config, surface, resized>>

\* render_and_present with any order of the pipeline list, any primitive
\* list and any acquisition outcome.
RenderAndPresentInAnyOrder ==
    /\ \E kinds \in PipelineOrders, outcome \in AcquireOutcomes,
          prims \in PrimitiveLists :
          RenderAndPresentInOrder(kinds, outcome, prims)
    /\ UNCHANGED <<selectorVars, graphVars, quadsVars, glyphVars, pass,
                   shellVars, taskVars>>

\* A call of resize_surface(new_size).
ResizeSurface(new_size) ==
    LET call == resize_surface(surface_config, new_size)
        configure == reconfigure_surface(call.surface_config)
    IN  /\ surface_config' = call.surface_config
        /\ surface' = IF call.reconfigured THEN configure.surface ELSE surface
        /\ effects' = IF call.reconfigured THEN configure.effects ELSE <<>>
        /\ resized' = TRUE
        /\ UNCHANGED <<view_projection_buffer, primitives, render_result>>

\* A call of reconfigure_surface().
ReconfigureSurface ==
    /\ surface' = reconfigure_surface(surface_config).surface
    /\ effects' = reconfigure_surface(surface_config).effects
    /\ UNCHANGED <<surface_config, view_projection_buffer, primitives,
                   render_result, resized>>
    /\ UNCHANGED <<indexVars, selectorVars, graphVars, quadsVars, glyphVars,
                   pass, shellVars, taskVars>>

\* ------------------------------------------------------ shell2.rs: Shell2

InitShell ==
    /\ event = None
    /\ exiting = FALSE
    /\ redraw_requested = FALSE

\* The channels, the pending list and the two tasks as run has set them up
\* when it enters the event loop (lines 175-213).
InitTasks ==
    /\ scene_channel = <<>>
    /\ scene_sent = 0
    /\ dispatcher = [at |-> "recv", received |-> <<>>, result |-> None]
    /\ scene_changes = <<>>
    /\ user_events = 0
    /\ applied = <<>>
    /\ presented = <<>>
    /\ window_events = 0
    /\ application_task = "sleeping"
    /\ run = [at |-> "event_loop", result |-> None]

\* application_context, a local of run that nothing takes: it holds
\* scene_sender (upload_channel) and event_receiver (window_events) until
\* run returns.
ApplicationContextAlive == run.at # "returned"

\* Sender::try_send on a channel holding `len` messages: the length
\* afterwards and the result.
try_send(len, receiver_alive) ==
    IF ~receiver_alive THEN [len |-> len, result |-> "Closed"]
    ELSE IF len >= ChannelCapacity THEN [len |-> len, result |-> "Full"]
    ELSE [len |-> len + 1, result |-> "Ok"]

\* A variant of the drain that leaves the taken changes in the list.
drain_keeping(list) == [taken |-> list, rest |-> list]

\* scene_changes.lock().unwrap().drain(..).collect(): what is taken and
\* what the list holds afterwards.
drain(list) == [taken |-> list, rest |-> <<>>]

\* sc2.lock().unwrap().extend(new_scene_changes)
extend(list, new_scene_changes) == list \o new_scene_changes

\* Renderer::apply_changes: the renderer's scene after the changes.
apply_changes(scene, new_changes) == scene \o new_changes

\* The primitive lists of some frames after apply_changes: none; a text
\* layer; a text layer between two textures of different pipelines.
FramePrimitiveLists ==
    { <<>>,
      <<TextLayerPrimitive(1, "mA")>>,
      <<TexturePrimitive(1, "SdfGlyph"), TextLayerPrimitive(2, "mB"),
        TexturePrimitive(3, "PlanarGlyph")>> }

\* render_and_present with the primitives of a frame and any acquisition
\* outcome.
RenderAndPresentFrame ==
    /\ \E outcome \in AcquireOutcomes, prims \in FramePrimitiveLists :
          RenderAndPresent(outcome, prims)
    /\ UNCHANGED <<selectorVars, graphVars, quadsVars, glyphVars, pass,
                   shellVars, taskVars>>

\* A variant of the match on the result of render_and_present that leaves
\* the event loop on a lost surface too.
OnRenderResultExitingOnLost(result, config) ==
    CASE result = "Ok" ->
            [reconfigure |-> FALSE, exit |-> FALSE, effects |-> <<>>]
      [] result = "Lost" ->
            [reconfigure |-> TRUE, exit |-> TRUE,
             effects |-> reconfigure_surface(config).effects]
      [] result = "OutOfMemory" ->
            [reconfigure |-> FALSE, exit |-> TRUE, effects |-> <<>>]
      [] OTHER ->
            [reconfigure |-> FALSE, exit |-> FALSE,
             effects |-> <<Command("error", 0, result)>>]

\* A variant of the match on the result of render_and_present that treats
\* an outdated surface like a lost one.
OnRenderResultReconfiguringOnOutdated(result, config) ==
    CASE result = "Ok" ->
            [reconfigure |-> FALSE, exit |-> FALSE, effects |-> <<>>]
      [] result \in {"Lost", "Outdated"} ->
            [reconfigure |-> TRUE, exit |-> FALSE,
             effects |-> reconfigure_surface(config).effects]
      [] result = "OutOfMemory" ->
            [reconfigure |-> FALSE, exit |-> TRUE, effects |-> <<>>]
      [] OTHER ->
            [reconfigure |-> FALSE, exit |-> FALSE,
             effects |-> <<Command("error", 0, result)>>]

\* The match on the result of render_and_present (lines 260-269): whether
\* the surface is reconfigured, whether window_target.exit() is called, and
\* the operations issued.
OnRenderResult(result, config) ==
    CASE result = "Ok" ->
            [reconfigure |-> FALSE, exit |-> FALSE, effects |-> <<>>]
      [] result = "Lost" ->
            [reconfigure |-> TRUE, exit |-> FALSE,
             effects |-> reconfigure_surface(config).effects]
      [] result = "OutOfMemory" ->
            [reconfigure |-> FALSE, exit |-> TRUE, effects |-> <<>>]
      [] OTHER ->
            [reconfigure |-> FALSE, exit |-> FALSE,
             effects |-> <<Command("error", 0, result)>>]

\* WindowEvent::CloseRequested, or the Escape key pressed.
CloseRequested ==
    /\ ~exiting
    /\ event' = Some([kind |-> "CloseRequested", size |-> None])
    /\ exiting' = TRUE
    /\ UNCHANGED redraw_requested
    /\ UNCHANGED <<indexVars, selectorVars, graphVars, quadsVars, glyphVars,
                   pass, rendererVars, taskVars>>

\* WindowEvent::Resized(physical_size)
Resized ==
    /\ ~exiting
    /\ \E physical_size \in Sizes :
          /\ event' = Some([kind |-> "Resized", size |-> Some(physical_size)])
          /\ ResizeSurface(physical_size)
    /\ redraw_requested' = TRUE
    /\ UNCHANGED exiting
    /\ UNCHANGED <<indexVars, selectorVars, graphVars, quadsVars, glyphVars,
                   pass, taskVars>>

\* WindowEvent::ScaleFactorChanged: the surface is resized to
\* window.inner_size().
ScaleFactorChanged ==
    /\ ~exiting
    /\ \E new_inner_size \in Sizes :
          /\ event' = Some([kind |-> "ScaleFactorChanged",
                            size |-> Some(new_inner_size)])
          /\ ResizeSurface(new_inner_size)
    /\ redraw_requested' = TRUE
    /\ UNCHANGED exiting
    /\ UNCHANGED <<indexVars, selectorVars, graphVars, quadsVars, glyphVars,
                   pass, taskVars>>

\* A variant of the redraw handler that acquires and renders first and
\* applies the drained changes only when the frame was presented.
OnRedrawRequestedRenderingFirst(list, scene, ib, outcome, vp, prims) ==
    LET new_changes == drain(list).taken
        call == render_and_present(ib, outcome, vp, prims)
    IN  [scene_changes |-> drain(list).rest,
         applied |-> IF call.result = "Ok"
                     THEN apply_changes(scene, new_changes)
                     ELSE scene,
         call |-> call]

\* The redraw handler up to the match on the result (lines 242-260): the
\* pending list is drained, the changes are applied to the renderer, then
\* render_and_present is called.
OnRedrawRequested(list, scene, ib, outcome, vp, prims) ==
    LET new_changes == drain(list).taken
    IN  [scene_changes |-> drain(list).rest,
         applied |-> apply_changes(scene, new_changes),
         call |-> render_and_present(ib, outcome, vp, prims)]

\* WindowEvent::RedrawRequested: the frame of lines 241-270.
RedrawRequested ==
    /\ ~exiting
    /\ event' = Some([kind |-> "RedrawRequested", size |-> None])
    /\ \E outcome \in AcquireOutcomes, prims \in FramePrimitiveLists :
          LET redraw == OnRedrawRequested(scene_changes, applied,
                                          index_buffer, outcome,
                                          ViewProjection, prims)
              call == redraw.call
              matched == OnRenderResult(call.result, surface_config)
          IN  /\ scene_changes' = redraw.scene_changes
              /\ applied' = redraw.applied
              /\ presented' = IF call.result = "Ok" THEN redraw.applied
                              ELSE presented
              /\ index_buffer' = call.index_buffer
              /\ new_quad_count' = IF call.result = "Ok"
                                   THEN MaxPrimitiveQuads(prims)
                                   ELSE new_quad_count
              /\ max_requested' = Max(max_requested, new_quad_count')
              /\ view_projection_buffer'
                    = UniformAfter(view_projection_buffer, call.effects)
              /\ primitives' = prims
              /\ render_result' = Some(call.result)
              /\ effects' = call.effects \o matched.effects
              /\ surface' = IF matched.reconfigure
                            THEN reconfigure_surface(surface_config).surface
                            ELSE surface
              /\ exiting' = matched.exit
    /\ redraw_requested' = FALSE
    /\ UNCHANGED <<surface_config, resized>>
    /\ UNCHANGED <<scene_channel, scene_sent, dispatcher, user_events,
                   window_events, application_task, run>>
    /\ UNCHANGED <<selectorVars, graphVars, quadsVars, glyphVars, pass>>

\* Any other window event: it is forwarded with event_sender.try_send, and
\* the event loop is left when that fails (lines 272-277).
ForwardEvent ==
    /\ ~exiting
    /\ event' = Some([kind |-> "Other", size |-> None])
    /\ LET sent == try_send(window_events, ApplicationContextAlive)
       IN  /\ window_events' = sent.len
           /\ exiting' = (sent.result # "Ok")
    /\ UNCHANGED redraw_requested
    /\ UNCHANGED <<scene_channel, scene_sent, dispatcher, scene_changes,
                   user_events, applied, presented, application_task, run>>
    /\ UNCHANGED <<indexVars, selectorVars, graphVars, quadsVars, glyphVars,
                   pass, rendererVars>>

\* Event::UserEvent(()), the wake-up of the dispatcher: it falls to the
\* arm `_ => {}` of the event loop (line 280).
UserEvent ==
    /\ ~exiting
    /\ user_events > 0
    /\ user_events' = user_events - 1
    /\ event' = Some([kind |-> "UserEvent", size |-> None])
    /\ UNCHANGED <<exiting, redraw_requested>>
    /\ UNCHANGED <<scene_channel, scene_sent, dispatcher, scene_changes,
                   applied, presented, window_events, application_task, run>>
    /\ UNCHANGED <<indexVars, selectorVars, graphVars, quadsVars, glyphVars,
                   pass, rendererVars>>

\* The holder of scene_sender sends a batch of scene changes.
SendSceneChanges ==
    /\ ApplicationContextAlive
    /\ Len(scene_channel) < ChannelCapacity
    /\ \E n \in 1..(MaxSceneChanges - scene_sent) :
          /\ scene_channel'
                = Append(scene_channel, [k \in 1..n |-> scene_sent + k])
          /\ scene_sent' = scene_sent + n
    /\ UNCHANGED <<dispatcher, scene_changes, user_events, applied,
                   presented, window_events, application_task, run>>
    /\ UNCHANGED <<indexVars, selectorVars, graphVars, quadsVars, glyphVars,
                   pass, rendererVars, shellVars>>

\* event_dispatcher_task: scene_receiver.recv().await gives a batch.
DispatcherRecv ==
    /\ dispatcher.at = "recv"
    /\ scene_channel # <<>>
    /\ dispatcher' = [dispatcher EXCEPT !.at = "extend",
                                        !.received = Head(scene_channel)]
    /\ scene_channel' = Tail(scene_channel)
    /\ UNCHANGED <<scene_sent, scene_changes, user_events, applied,
                   presented, window_events, application_task, run>>
    /\ UNCHANGED <<indexVars, selectorVars, graphVars, quadsVars, glyphVars,
                   pass, rendererVars, shellVars>>

\* event_dispatcher_task: scene_receiver.recv().await gives None, the
\* channel being empty with no sender left; the task ends with Ok.
DispatcherEnd ==
    /\ dispatcher.at = "recv"
    /\ scene_channel = <<>>
    /\ ~ApplicationContextAlive
    /\ dispatcher' = [dispatcher EXCEPT !.at = "ended", !.result = Some("Ok")]
    /\ UNCHANGED <<scene_channel, scene_sent, scene_changes, user_events,
                   applied, presented, window_events, application_task, run>>
    /\ UNCHANGED <<indexVars, selectorVars, graphVars, quadsVars, glyphVars,
                   pass, rendererVars, shellVars>>

\* event_dispatcher_task: the received batch is appended to the pending
\* list under the mutex (line 187).
DispatcherExtend ==
    /\ dispatcher.at = "extend"
    /\ scene_changes' = extend(scene_changes, dispatcher.received)
    /\ dispatcher' = [dispatcher EXCEPT !.at = "send_event",
                                        !.received = <<>>]
    /\ UNCHANGED <<scene_channel, scene_sent, user_events, applied,
                   presented, window_events, application_task, run>>
    /\ UNCHANGED <<indexVars, selectorVars, graphVars, quadsVars, glyphVars,
                   pass, rendererVars, shellVars>>

\* event_dispatcher_task: proxy.send_event(())? (line 188).  The event is
\* queued while the event loop runs; once the loop is gone the call fails
\* and the task ends with that error.
DispatcherSendEvent ==
    /\ dispatcher.at = "send_event"
    /\ IF exiting
       THEN /\ dispatcher' = [dispatcher EXCEPT
                                 !.at = "ended",
                                 !.result = Some("EventLoopClosed")]
            /\ UNCHANGED user_events
       ELSE /\ dispatcher' = [dispatcher EXCEPT !.at = "recv"]
            /\ user_events' = user_events + 1
    /\ UNCHANGED <<scene_channel, scene_sent, scene_changes, applied,
                   presented, window_events, application_task, run>>
    /\ UNCHANGED <<indexVars, selectorVars, graphVars, quadsVars, glyphVars,
                   pass, rendererVars, shellVars>>

\* The application task: its sleep of 10 seconds is over and it returns
\* Ok (lines 204-209).
ApplicationTaskFinishes ==
    /\ application_task = "sleeping"
    /\ application_task' = "finished"
    /\ UNCHANGED <<scene_channel, scene_sent, dispatcher, scene_changes,
                   user_events, applied, presented, window_events, run>>
    /\ UNCHANGED <<indexVars, selectorVars, graphVars, quadsVars, glyphVars,
                   pass, rendererVars, shellVars>>

\* run after the event loop has returned: application_task.abort() and
\* application_task.await? (lines 285-286).  A task aborted before it has
\* finished gives a JoinError, with which run returns.
AbortApplication ==
    /\ exiting
    /\ run.at = "event_loop"
    /\ IF application_task = "finished"
       THEN /\ run' = [run EXCEPT !.at = "await_dispatcher"]
            /\ UNCHANGED application_task
       ELSE /\ application_task' = "cancelled"
            /\ run' = [at |-> "returned", result |-> Some("JoinError")]
    /\ UNCHANGED <<scene_channel, scene_sent, dispatcher, scene_changes,
                   user_events, applied, presented, window_events>>
    /\ UNCHANGED <<indexVars, selectorVars, graphVars, quadsVars, glyphVars,
                   pass, rendererVars, shellVars>>

\* run: event_dispatcher_task.await?? (line 289) once the task has ended;
\* run returns the task's error or the application's result.
AwaitDispatcher ==
    /\ run.at = "await_dispatcher"
    /\ dispatcher.at = "ended"
    /\ run' = [at |-> "returned", result |-> dispatcher.result]
    /\ UNCHANGED <<scene_channel, scene_sent, dispatcher, scene_changes,
                   user_events, applied, presented, window_events,
                   application_task>>
    /\ UNCHANGED <<indexVars, selectorVars, graphVars, quadsVars, glyphVars,
                   pass, rendererVars, shellVars>>

\* ------------------------------------------------- text/render_graph.rs

\* The widths and heights of cached glyph images: none or some.
ImageSides == {0, 1}

\* What glyph_cache.get_image gives for a placed glyph: no image, or an
\* image with its placement.
GlyphImages ==
    {None} \cup {Some([placement |-> [width |-> w, height |-> h]]) :
                    w \in ImageSides, h \in ImageSides}

\* The images of the glyphs of a laid-out text.
GlyphImageLists ==
    UNION {[1..n -> GlyphImages] : n \in 0..MaxGlyphs}

\* image_to_texture: the view of a texture of the image's size.
image_to_texture(image) ==
    [width |-> image.placement.width, height |-> image.placement.height]

\* A variant of the node that keeps the images of no width or no height.
placements_and_texture_views_unfiltered(images) ==
    [i \in DOMAIN images |->
        IF images[i] = None THEN None
        ELSE Some([placement |-> images[i][1].placement,
                   texture_view |-> image_to_texture(images[i][1])])]

\* The node placements_and_texture_views (lines 101-121): per glyph, the
\* placement and the texture view of its image when it has one with a
\* width and a height other than 0.
placements_and_texture_views(images) ==
    [i \in DOMAIN images |->
        IF /\ images[i] # None
           /\ images[i][1].placement.width # 0
           /\ images[i][1].placement.height # 0
        THEN Some([placement |-> images[i][1].placement,
                   texture_view |-> image_to_texture(images[i][1])])
        ELSE None]

\* The node vertex_buffers (lines 123-146).
vertex_buffers(placements) ==
    [i \in DOMAIN placements |->
        IF placements[i] = None THEN None
        ELSE Some([glyph |-> i, placement |-> placements[i][1].placement])]

\* The node texture_bind_groups (lines 184-210).
texture_bind_groups(placements) ==
    [i \in DOMAIN placements |->
        IF placements[i] = None THEN None
        ELSE Some([texture_view |-> placements[i][1].texture_view,
                   sampler |-> "texture_sampler"])]

\* The loop of the node command_buffer from glyph i on (lines 386-394):
\* the commands it issues, and whether an unwrap of vertex_buffers[i]
\* has panicked, which ends the loop.
RECURSIVE DrawGlyphs(_, _, _)
DrawGlyphs(bind_groups, buffers, i) ==
    IF i > Len(bind_groups) THEN [commands |-> <<>>, panicked |-> FALSE]
    ELSE IF bind_groups[i] = None THEN DrawGlyphs(bind_groups, buffers, i + 1)
    ELSE IF buffers[i] = None
         THEN [commands |->
                  <<Command("set_bind_group", 0, bind_groups[i][1])>>,
               panicked |-> TRUE]
    ELSE LET rest == DrawGlyphs(bind_groups, buffers, i + 1)
         IN  [commands |->
                 <<Command("set_bind_group", 0, bind_groups[i][1]),
                   Command("set_vertex_buffer", 0, buffers[i][1]),
                   Command("draw_indexed", 0, Len(QUAD_INDICES))>>
                 \o rest.commands,
              panicked |-> rest.panicked]

\* The node command_buffer (lines 357-397).
command_buffer(bind_groups, buffers) ==
    LET loop == DrawGlyphs(bind_groups, buffers, 1)
    IN  [commands |->
            <<Command("set_pipeline", 0, "pipeline"),
              Command("set_bind_group", 1, "camera_bind_group"),
              Command("set_index_buffer", 0, Len(QUAD_INDICES) * SizeOfU16)>>
            \o loop.commands,
         panicked |-> loop.panicked]

\* render_graph: the nodes computed from the images of the glyphs.
render_graph(images) ==
    LET placements == placements_and_texture_views(images)
    IN  [vertex_buffers |-> vertex_buffers(placements),
         texture_bind_groups |-> texture_bind_groups(placements),
         command_buffer |-> command_buffer(texture_bind_groups(placements),
                                           vertex_buffers(placements))]

\* The graph of a text without glyphs.
InitGraph ==
    /\ glyph_images = <<>>
    /\ graph = render_graph(<<>>)

\* The text changes: its glyphs have the given images and the nodes of the
\* graph are computed again.
RenderGraph ==
    /\ \E images \in GlyphImageLists :
          /\ glyph_images' = images
          /\ graph' = render_graph(images)
    /\ UNCHANGED <<indexVars, selectorVars, quadsVars, glyphVars, pass,
                   driverVars>>

\* C1: after every ensure_quads call the capacity in quads covers the
\* argument of that call and the largest argument of any call so far, and
\* no step lowers the capacity.
C1_CapacityCoversRequests ==
    /\ [](/\ quads(index_buffer) >= new_quad_count
          /\ quads(index_buffer) >= max_requested)
    /\ [][quads(index_buffer') >= quads(index_buffer)]_indexVars

\* C1 witness: the buffer was regenerated at least twice and the last call
\* asked for fewer quads than the capacity reached before.
C1_Witness ==
    /\ index_buffer.buffer.id >= 2
    /\ new_quad_count > 0
    /\ new_quad_count < quads(index_buffer)
    /\ max_requested = quads(index_buffer)

\* C2: every stored index of quad i at offset k is base_pattern[k] + 4*i,
\* for every quad count that can be requested.
C2_IndexIdentity ==
    \A i \in 0..(quads(index_buffer) - 1) :
        \A k \in 1..Len(QUAD_INDICES) :
            IndexAt(index_buffer.buffer.contents,
                    Len(QUAD_INDICES) * i + (k - 1))
                = QUAD_INDICES[k] + 4 * i

\* C3: a call whose argument the capacity covers leaves the index buffer
\* as it is; any other call replaces it by a new buffer object that holds
\* exactly the requested number of quads.
C3_EnsureQuadsFrame ==
    [][IF new_quad_count' <= quads(index_buffer)
       THEN index_buffer' = index_buffer
       ELSE /\ index_buffer'.buffer.id > index_buffer.buffer.id
            /\ quads(index_buffer') = new_quad_count'
            /\ VecLen(index_buffer'.buffer.contents)
                   = new_quad_count' * Len(QUAD_INDICES)]_indexVars

\* C3 witness: a non-empty buffer was replaced and the capacity is exactly
\* the count the replacing call asked for.
C3_Witness ==
    /\ index_buffer.buffer.id >= 2
    /\ new_quad_count >= 2
    /\ quads(index_buffer) = new_quad_count

\* C4: the conversion is defined for every glyph class; PixelPerfect and
\* Zoomed give prefer_sdf = false, Distorted gives prefer_sdf = true, all
\* three give hinted = true and the default weight, whatever the payload.
C4_SelectorTable ==
    param # None =>
        /\ param[1].prefer_sdf = (glyph_class.tag = "Distorted")
        /\ param[1].swash.hinted = TRUE
        /\ param[1].swash.weight = DefaultWeight
        /\ \A other \in GlyphClasses :
               other.tag = glyph_class.tag => FromGlyphClass(other) = param[1]

\* C4 witness: a Zoomed glyph with a non-zero payload has been converted.
C4_Witness ==
    /\ param # None
    /\ glyph_class.tag = "Zoomed"
    /\ glyph_class.payload > 0

\* C5: a Distorted glyph is routed to the SdfGlyph pipeline, a PixelPerfect
\* or Zoomed glyph to the PlanarGlyph pipeline, and no glyph to any other.
C5_PipelineByClass ==
    pipeline_kind # None =>
        pipeline_kind[1] = IF glyph_class.tag = "Distorted"
                           THEN "SdfGlyph"
                           ELSE "PlanarGlyph"

\* C5 witness: a Distorted glyph has been given its pipeline.
C5_Witness ==
    /\ pipeline_kind # None
    /\ glyph_class.tag = "Distorted"

\* ---------------------------------------------------- claims on the batchers

\* The handles of the Quads shapes of the last prepare call that hold at
\* least one quad.
HandlesWithQuads ==
    {h \in Handles :
        \E i \in DOMAIN shapes :
            /\ shapes[i].kind = "Quads"
            /\ shapes[i].model_matrix = h
            /\ shapes[i].quads # <<>>}

\* The quads of the Quads shapes with handle h among the first n shapes of
\* the last prepare call, in input order.
RECURSIVE QuadsOnHandle(_, _)
QuadsOnHandle(h, n) ==
    IF n = 0 THEN <<>>
    ELSE QuadsOnHandle(h, n - 1)
            \o (IF shapes[n].kind = "Quads" /\ shapes[n].model_matrix = h
                THEN shapes[n].quads
                ELSE <<>>)

\* The batch the claims expect for handle h: its matrix value, the four
\* vertices of each of its quads, and the number of its quads.
ExpectedLayer(h) ==
    LET qs == QuadsOnHandle(h, Len(shapes))
    IN  [model_matrix |-> transforms[h],
         vertex_buffer |->
            [p \in 1..(4 * Len(qs)) |->
                [position |-> qs[((p - 1) \div 4) + 1].vertices[((p - 1) % 4) + 1],
                 color |-> qs[((p - 1) \div 4) + 1].color]],
         quad_count |-> Len(qs)]

\* C6: the layers after prepare are, one for one, the batches of the
\* distinct transform handles that carry at least one quad: shapes sharing
\* a handle are in one layer, and two handles have two layers even when
\* their matrix values are equal.
C6_GroupedByHandleIdentity ==
    /\ Len(quads_renderer.layers) = Cardinality(HandlesWithQuads)
    /\ \E place \in [HandlesWithQuads -> DOMAIN quads_renderer.layers] :
          /\ \A g, h \in HandlesWithQuads : g # h => place[g] # place[h]
          /\ \A h \in HandlesWithQuads :
                quads_renderer.layers[place[h]] = ExpectedLayer(h)

\* C6 witness: two separately allocated transforms of equal value each
\* carry a quad, and there are two layers.
C6_Witness ==
    /\ transforms["h1"] = transforms["h2"]
    /\ Len(shapes) = MaxShapes
    /\ HandlesWithQuads = {"h1", "h2"}
    /\ Len(quads_renderer.layers) = 2

\* C7: every batch of the quad batcher and of the glyph atlas batcher
\* holds four vertices per quad; the quad counts of the layers are the
\* per-handle sums of the quad counts of the shapes; the quad count of a
\* glyph batch is the number of instances passed to batch().
C7_FourVerticesPerQuad ==
    /\ \A i \in DOMAIN quads_renderer.layers :
          Len(quads_renderer.layers[i].vertex_buffer)
             = 4 * quads_renderer.layers[i].quad_count
    /\ \A i \in DOMAIN batches :
          Len(batches[i].vertex_buffer) = 4 * batches[i].quad_count
    /\ \A c \in 0..(4 * Len(shapes)) :
          Cardinality({i \in DOMAIN quads_renderer.layers :
                          quads_renderer.layers[i].quad_count = c})
             = Cardinality({h \in HandlesWithQuads :
                              Len(QuadsOnHandle(h, Len(shapes))) = c})
    /\ batches # <<>> => batches[Len(batches)].quad_count = Len(instances)

\* C7 witness: three quads on one transform and two on another gave two
\* layers with the quad counts 3 and 2, and a glyph batch of the largest
\* instance list has been built.
C7_Witness ==
    /\ Len(quads_renderer.layers) = 2
    /\ {quads_renderer.layers[i].quad_count : i \in 1..2} = {2, 3}
    /\ batches # <<>>
    /\ batches[Len(batches)].quad_count = MaxInstances

\* C8: prepare returns Ok, stores no layer without quads, and stores no
\* layer at all for an empty shape list.
C8_NoEmptyLayer ==
    /\ prepare_result = "Ok"
    /\ \A i \in DOMAIN quads_renderer.layers :
          /\ quads_renderer.layers[i].quad_count >= 1
          /\ quads_renderer.layers[i].vertex_buffer # <<>>
    /\ shapes = <<>> => quads_renderer.layers = <<>>

\* C8 witness: of two transform groups the one without quads was skipped
\* and the other one stored.
C8_Witness ==
    /\ \E i, j \in DOMAIN shapes :
          /\ shapes[i].model_matrix # shapes[j].model_matrix
          /\ shapes[i].quads = <<>>
          /\ shapes[j].quads # <<>>
    /\ Cardinality(HandlesWithQuads) = 1
    /\ Len(quads_renderer.layers) = 1

\* C9: a batch() call with no instances leaves the caller without a batch
\* and render issues no draw call for it: no batch has a quad count of 0
\* and no draw of the glyph pipeline covers zero indices.
C9_EmptyBatchYieldsNothing ==
    /\ \A i \in DOMAIN batches : batches[i].quad_count >= 1
    /\ \A i \in DOMAIN pass.commands :
          pass.commands[i].cmd = "draw_indexed" => pass.commands[i].val > 0

\* C10: the transforms and quad counts of the stored layers are those of
\* the last prepare call's input, each as often as that input gives it.
C10_RebuiltFromLastInput ==
    \A m \in MatrixValues :
        \A c \in 0..(4 * (Len(shapes) + Len(quads_renderer.layers))) :
            Cardinality({i \in DOMAIN quads_renderer.layers :
                            /\ quads_renderer.layers[i].model_matrix = m
                            /\ quads_renderer.layers[i].quad_count = c})
               = Cardinality({h \in HandlesWithQuads :
                                /\ transforms[h] = m
                                /\ Len(QuadsOnHandle(h, Len(shapes))) = c})

\* C10 witness: after a later prepare call with fewer quads the layers are
\* those of that call alone, while the index buffer still has the larger
\* capacity of an earlier call.
C10_Witness ==
    /\ Len(quads_renderer.layers) = 1
    /\ quads_renderer.layers[1].quad_count = 1
    /\ IndexableQuads(quads_renderer.index_buffer) > 1

\* C11: the quad batcher and the glyph atlas batcher bind one index
\* resource: what the one holds as its index buffer is what the other
\* holds, and it can index the largest quad count of any stored layer and
\* of any batch built.
C11_SingleIndexResource ==
    /\ quads_renderer.index_buffer = sdf_renderer.index_buffer
    /\ \A i \in DOMAIN quads_renderer.layers :
          IndexableQuads(sdf_renderer.index_buffer)
             >= quads_renderer.layers[i].quad_count
    /\ \A i \in DOMAIN batches :
          IndexableQuads(quads_renderer.index_buffer)
             >= batches[i].quad_count

\* The commands a pass holds from the set_pipeline of the named pipeline up
\* to the next set_pipeline or the end.
PassSection(name) ==
    LET c == pass.commands
        starts == {i \in DOMAIN c : c[i].cmd = "set_pipeline"}
        s == CHOOSE i \in starts : c[i].val = name
        later == {i \in starts : i > s}
        e == IF later = {} THEN Len(c)
             ELSE (CHOOSE i \in later : \A j \in later : i <= j) - 1
    IN  SubSeq(c, s, e)

\* The commands `section` draw the batches `batch_list` one after the other:
\* one draw per batch, in order; before the k-th draw and after the draw
\* before it the camera uniform is written, the last such write holds the
\* view-projection matrix times the k-th batch's model matrix, and bind
\* group 0 is set between that write and the draw.
DrawnInSequence(section, batch_list) ==
    LET draws == {i \in DOMAIN section : section[i].cmd = "draw_indexed"}
        writes == {i \in DOMAIN section :
                      section[i].cmd = "queue_write_view_projection"}
        Last(S) == CHOOSE i \in S : \A j \in S : j <= i
    IN  /\ Cardinality(draws) = Len(batch_list)
        /\ \A i \in draws :
              LET k == Cardinality({j \in draws : j <= i})
                  before == {j \in draws : j < i}
                  since == {w \in writes :
                              /\ w < i
                              /\ \A j \in before : j < w}
              IN  /\ since # {}
                  /\ section[Last(since)].val
                        = MatrixProduct(ViewProjection,
                                        batch_list[k].model_matrix)
                  /\ \E j \in (Last(since) + 1)..(i - 1) :
                        /\ section[j].cmd = "set_bind_group"
                        /\ section[j].slot = 0
                        /\ section[j].val = "view_projection_bind_group"
                  /\ section[i].val
                        = Len(QUAD_INDICES) * batch_list[k].quad_count

\* C12: in the quad and in the glyph draw routine the batches are drawn in
\* sequence, and when a batch's draw is issued the last write to the camera
\* uniform is view_projection_matrix * that batch's model matrix, with bind
\* group 0 set again after the write.
C12_UniformPerBatch ==
    /\ "quads" \in Rendered(pass) =>
          DrawnInSequence(PassSection("quads"), quads_renderer.layers)
    /\ "atlas_sdf" \in Rendered(pass) =>
          DrawnInSequence(PassSection("atlas_sdf"), render_batches)

\* C12 witness: one pass holds the draws of two quad layers and of two
\* glyph batches, the two of each with different model matrices.
C12_Witness ==
    /\ Rendered(pass) = {"quads", "atlas_sdf"}
    /\ Len(quads_renderer.layers) = 2
    /\ quads_renderer.layers[1].model_matrix
          # quads_renderer.layers[2].model_matrix
    /\ Len(render_batches) = 2
    /\ render_batches[1].model_matrix # render_batches[2].model_matrix

\* C13: no glyph batch is drawn with a binding group built against an atlas
\* texture that has been reallocated since: every binding group in slot 1
\* under which a draw of at least one quad is issued refers to the texture
\* and the size the atlas has now.
C13_NoStaleAtlasBinding ==
    LET c == pass.commands
        Bound(i) == {j \in DOMAIN c :
                        /\ j < i
                        /\ c[j].cmd = "set_bind_group"
                        /\ c[j].slot = 1}
    IN  \A i \in DOMAIN c :
            (c[i].cmd = "draw_indexed" /\ c[i].val > 0 /\ Bound(i) # {})
                => LET b == CHOOSE j \in Bound(i) : \A k \in Bound(i) : k <= j
                   IN  /\ c[b].val.texture_view = sdf_renderer.atlas.texture
                       /\ c[b].val.texture_size = sdf_renderer.atlas.size

\* ------------------------------------------------- claims on the frame driver

\* The positions in `log` of the operations named `cmd`.
Positions(log, cmd) == {i \in DOMAIN log : log[i].cmd = cmd}

\* The operations of the state are those of a render_and_present call.
FrameAttempted == Positions(effects, "get_current_texture") # {}

\* The same in the state a step leads to, and the acquisition failed.
AcquisitionFailed(log) ==
    \E i \in Positions(log, "get_current_texture") :
        log[i].val \in SurfaceErrors

\* C14: a render_and_present call at which the acquisition fails returns
\* that error, issues nothing but the acquisition, and leaves the index
\* buffer, the camera uniform and the surface as they are; a reconfigure
\* leaves the index buffer, the camera uniform and the primitives as they
\* are.
C14_FailedAcquisitionChangesNothing ==
    [][/\ AcquisitionFailed(effects') =>
            /\ render_result' = Some(effects'[1].val)
            /\ effects' = <<Command("get_current_texture", 0,
                                    render_result'[1])>>
            /\ index_buffer' = index_buffer
            /\ view_projection_buffer' = view_projection_buffer
            /\ surface' = surface
            /\ surface_config' = surface_config
       /\ Positions(effects', "surface_configure") # {} =>
            /\ index_buffer' = index_buffer
            /\ view_projection_buffer' = view_projection_buffer
            /\ primitives' = primitives
            /\ Len(effects') = 1]_vars

\* C14 witness: a call with primitives to draw has failed with Lost while
\* the index buffer holds no quad and the camera uniform was never
\* written.
C14_Witness ==
    /\ render_result = Some("Lost")
    /\ FrameAttempted
    /\ primitives # <<>>
    /\ quads(index_buffer) = 0
    /\ view_projection_buffer = None

\* The operations recorded into the render pass.
PassCommands ==
    {"set_pipeline", "set_bind_group", "set_index_buffer",
     "set_vertex_buffer", "draw_indexed"}

\* C15: a render_and_present call that returns Ok has issued exactly one
\* submit, after the one render pass was begun, recorded, ended and
\* finished, and exactly one present, after the submit and last of all; a
\* call that returns an error has issued no submit and no present.
C15_FrameAtomic ==
    (FrameAttempted /\ render_result # None) =>
        LET One(cmd) == CHOOSE i \in Positions(effects, cmd) : TRUE
        IN  IF render_result[1] = "Ok"
            THEN /\ \A cmd \in {"begin_render_pass", "end_render_pass",
                                  "finish", "submit", "present"} :
                       Cardinality(Positions(effects, cmd)) = 1
                 /\ \A i \in DOMAIN effects :
                       effects[i].cmd \in PassCommands =>
                           /\ One("begin_render_pass") < i
                           /\ i < One("end_render_pass")
                 /\ One("begin_render_pass") < One("end_render_pass")
                 /\ One("end_render_pass") < One("finish")
                 /\ One("finish") < One("submit")
                 /\ One("submit") < One("present")
                 /\ One("present") = Len(effects)
            ELSE /\ render_result[1] \in SurfaceErrors
                 /\ Positions(effects, "submit") = {}
                 /\ Positions(effects, "present") = {}

\* C15 witness: a frame with a primitive to draw has been submitted and
\* presented.
C15_Witness ==
    /\ render_result = Some("Ok")
    /\ FrameAttempted
    /\ Len(primitives) = MaxPrimitives
    /\ Positions(effects, "draw_indexed") # {}

\* The run loop has handled a RedrawRequested event last, and its
\* render_and_present call returned `result`.
FrameReturned(result) ==
    /\ event # None
    /\ event[1].kind = "RedrawRequested"
    /\ render_result = Some(result)

\* C16: when render_and_present returns Lost the run loop reconfigures the
\* surface once, with the current surface configuration, and does not
\* exit: a further RedrawRequested can be handled, and every handled
\* RedrawRequested starts with a new acquisition of the surface texture.
C16_LostReconfiguresAndRetries ==
    /\ [](FrameReturned("Lost") =>
            /\ Cardinality(Positions(effects, "surface_configure")) = 1
            /\ \A i \in Positions(effects, "surface_configure") :
                  effects[i].val = surface_config
            /\ surface.config = surface_config
            /\ ~exiting
            /\ ENABLED RedrawRequested)
    /\ [][(event' # None /\ event'[1].kind = "RedrawRequested") =>
            /\ effects' # <<>>
            /\ effects'[1].cmd = "get_current_texture"]_vars

\* C16 witness: a frame returned Lost after an earlier frame had been
\* drawn and the window had been resized.
C16_Witness ==
    /\ FrameReturned("Lost")
    /\ resized
    /\ quads(index_buffer) > 0

\* C17: after a RedrawRequested the run loop is exiting exactly when
\* render_and_present returned OutOfMemory; after Timeout or Outdated the
\* error is logged, the surface is not reconfigured, and the loop handles
\* further events.
C17_OnlyOutOfMemoryExits ==
    \A result \in AcquireOutcomes :
        FrameReturned(result) =>
            /\ exiting <=> (result = "OutOfMemory")
            /\ result \in {"Timeout", "Outdated"} =>
                  /\ effects = <<Command("get_current_texture", 0, result),
                                 Command("error", 0, result)>>
                  /\ ENABLED RedrawRequested
                  /\ ENABLED Resized

\* C17 witness: a frame returned Timeout after an earlier frame had been
\* drawn.
C17_Witness ==
    /\ FrameReturned("Timeout")
    /\ quads(index_buffer) > 0
    /\ ~exiting

\* The last position before i in `log` of an operation `cmd` in `slot`;
\* 0 when there is none.
LastBefore(log, i, cmd, slot) ==
    LET S == {j \in Positions(log, cmd) : j < i /\ log[j].slot = slot}
    IN  IF S = {} THEN 0 ELSE CHOOSE j \in S : \A k \in S : k <= j

\* The positions of the draws of the primitive `id`: the draws issued with
\* its vertex buffer in slot 0.
DrawsOf(log, id) ==
    {i \in Positions(log, "draw_indexed") :
        /\ LastBefore(log, i, "set_vertex_buffer", 0) # 0
        /\ log[LastBefore(log, i, "set_vertex_buffer", 0)].val.primitive = id}

\* C18: a render_and_present call that returns Ok opens one render pass;
\* the pipelines set are those of the pipeline list in its order; every
\* draw follows the set_pipeline and the set_index_buffer of its visit;
\* every primitive is drawn once, under the pipeline of its kind; and
\* primitives of one kind are drawn in input order.
C18_OnePassFixedOrder ==
    (FrameAttempted /\ render_result = Some("Ok")) =>
        LET visits == Positions(effects, "set_pipeline")
            Visit(i) == LastBefore(effects, i, "set_pipeline", 0)
            Draw(id) == CHOOSE i \in DrawsOf(effects, id) : TRUE
        IN  /\ Cardinality(Positions(effects, "begin_render_pass")) = 1
            /\ Cardinality(visits) = Len(pipelines)
            /\ \A i \in visits :
                  effects[i].val
                     = pipelines[Cardinality({j \in visits : j <= i})]
            /\ \A i \in Positions(effects, "draw_indexed") :
                  /\ Visit(i) # 0
                  /\ Visit(i) < LastBefore(effects, i, "set_index_buffer", 0)
            /\ Cardinality(Positions(effects, "draw_indexed"))
                  = Len(primitives)
            /\ \A n \in DOMAIN primitives :
                  /\ Cardinality(DrawsOf(effects, primitives[n].id)) = 1
                  /\ effects[Visit(Draw(primitives[n].id))].val
                        = primitives[n].pipeline
            /\ \A m, n \in DOMAIN primitives :
                  (m < n /\ primitives[m].pipeline = primitives[n].pipeline)
                     => Draw(primitives[m].id) < Draw(primitives[n].id)

\* C18 witness: a frame drew two primitives of different kinds, the one
\* of the later pipeline first in the input.
C18_Witness ==
    /\ FrameAttempted
    /\ render_result = Some("Ok")
    /\ Len(primitives) = MaxPrimitives
    /\ primitives[1].pipeline = "TextLayer"
    /\ primitives[Len(primitives)].pipeline = "PlanarGlyph"

\* C19: once resize_surface has been called the surface configuration and
\* the configured surface are at least 1x1, whatever sizes were passed; a
\* call whose size, with each dimension raised to at least 1, is the
\* current surface size changes nothing and does not reconfigure, and any
\* other call sets that size and reconfigures the surface with it once.
C19_SurfaceAtLeastOneByOne ==
    /\ [](resized =>
            /\ surface_config.width >= 1
            /\ surface_config.height >= 1
            /\ surface.config = surface_config)
    /\ [][(event' # None /\ event'[1].size # None) =>
            LET new_size == event'[1].size[1]
                clamped == [width |-> IF new_size[1] = 0 THEN 1
                                      ELSE new_size[1],
                            height |-> IF new_size[2] = 0 THEN 1
                                       ELSE new_size[2]]
            IN  IF clamped = surface_config
                THEN /\ surface_config' = surface_config
                     /\ surface' = surface
                     /\ effects' = <<>>
                ELSE /\ surface_config' = clamped
                     /\ surface'.config = clamped
                     /\ effects' = <<Command("surface_configure", 0,
                                             clamped)>>]_vars

\* C19 witness: a resize to a width of 0 has reconfigured the surface with
\* the width 1.
C19_Witness ==
    /\ resized
    /\ event # None
    /\ event[1].size # None
    /\ event[1].size[1][1] = 0
    /\ event[1].size[1][2] = MaxSize
    /\ effects = <<Command("surface_configure", 0,
                           [width |-> 1, height |-> MaxSize])>>

\* C20: after any sequence of prepare calls the quad renderer's index
\* buffer can index the quad count of every stored layer, and every draw
\* of the quad pipeline covers no more indices than the index buffer bound
\* in its pass holds.
C20_QuadDrawsInsideIndexBuffer ==
    /\ \A i \in DOMAIN quads_renderer.layers :
          IndexableQuads(quads_renderer.index_buffer)
             >= quads_renderer.layers[i].quad_count
    /\ "quads" \in Rendered(pass) =>
          LET section == PassSection("quads")
          IN  \A i, j \in DOMAIN section :
                 (section[i].cmd = "set_index_buffer"
                    /\ section[j].cmd = "draw_indexed")
                  => /\ i < j
                     /\ section[j].val * SizeOfU16 <= section[i].val

\* C20 witness: a pass has drawn a layer of fewer quads than an earlier
\* prepare call left the index buffer able to index.
C20_Witness ==
    /\ "quads" \in Rendered(pass)
    /\ \E i \in DOMAIN quads_renderer.layers :
          /\ quads_renderer.layers[i].quad_count >= 1
          /\ quads_renderer.layers[i].quad_count
                < IndexableQuads(quads_renderer.index_buffer)

\* C21: in a render call of the glyph atlas batcher over any slice of the
\* batches it built, the index slice bound covers the largest quad count of
\* the rendered batches (none: nothing), it is no longer than the index
\* buffer, and every draw covers indices inside that slice.
C21_GlyphDrawsInsideIndexSlice ==
    "atlas_sdf" \in Rendered(pass) =>
        LET section == PassSection("atlas_sdf")
            bound == {i \in DOMAIN section :
                         section[i].cmd = "set_index_buffer"}
        IN  /\ Cardinality(bound) = 1
            /\ \A i \in bound :
                  /\ section[i].val
                        = MaxQuadCount(render_batches) * Len(QUAD_INDICES)
                             * SizeOfU16
                  /\ section[i].val
                        <= Len(sdf_renderer.index_buffer.contents) * SizeOfU16
                  /\ \A j \in DOMAIN section :
                        section[j].cmd = "draw_indexed"
                            => /\ i < j
                               /\ section[j].val * SizeOfU16
                                     <= section[i].val

\* C21 witness: a proper slice of the batches has been rendered, its
\* largest batch has quads, and the index buffer can index more than that.
C21_Witness ==
    /\ "atlas_sdf" \in Rendered(pass)
    /\ Len(render_batches) < Len(batches)
    /\ MaxQuadCount(render_batches) >= 1
    /\ MaxQuadCount(render_batches)
          < IndexableQuads(sdf_renderer.index_buffer)

\* C22: no index buffer is regenerated while a render pass is open.  In a
\* frame of render_and_present every buffer creation comes before the pass
\* begins or after it has ended, and every set_index_buffer of the pass
\* binds the one buffer the renderer holds; no step that starts or ends
\* with the pass of the batchers open changes the index buffer of either
\* batcher.
C22_IndexStableDuringPass ==
    /\ [](/\ \A i \in Positions(effects, "create_buffer") :
                \A b \in Positions(effects, "begin_render_pass") :
                    b < i => \E e \in Positions(effects, "end_render_pass") :
                                b < e /\ e < i
          /\ \A i \in Positions(effects, "set_index_buffer") :
                effects[i].val = index_buffer.buffer.id)
    /\ [][(pass.open \/ pass'.open)
            => /\ sdf_renderer'.index_buffer = sdf_renderer.index_buffer
               /\ quads_renderer'.index_buffer
                     = quads_renderer.index_buffer]_vars

\* C22 witness: the last frame of render_and_present created an index
\* buffer and drew with it, and the pass of the batchers is open with a
\* glyph batch drawn from an index buffer that batch() had grown.
C22_Witness ==
    /\ Positions(effects, "create_buffer") # {}
    /\ Positions(effects, "set_index_buffer") # {}
    /\ pass.open
    /\ "atlas_sdf" \in Rendered(pass)
    /\ MaxQuadCount(render_batches) >= 1

C24_ForwardExitsOnlyWhenReceiverDropped ==
    (event # None /\ event[1].kind = "Other" /\ exiting)
        => ~ApplicationContextAlive

\* The scene changes of the batches of a channel, oldest first.
RECURSIVE Flatten(_)
Flatten(batch_list) ==
    IF batch_list = <<>> THEN <<>>
    ELSE Head(batch_list) \o Flatten(Tail(batch_list))

\* C25: scene changes are neither lost, duplicated nor reordered on their
\* way to the renderer: what the redraws have handed to the renderer,
\* followed by the pending list, by the batch the dispatcher holds and by
\* the batches in the channel, is the sequence of the changes sent.
C25_ChangesInOrder ==
    applied \o scene_changes \o dispatcher.received \o Flatten(scene_channel)
        = [k \in 1..scene_sent |-> k]

\* C25 witness: a redraw has drained the pending list between the
\* dispatcher's append and its wake-up, and a later batch is already in the
\* channel.
C25_Witness ==
    /\ applied # <<>>
    /\ dispatcher.at = "send_event"
    /\ scene_changes = <<>>
    /\ scene_channel # <<>>

\* C26: the wake-up event of the dispatcher leads to a redraw: while the
\* event loop runs, once the dispatcher has sent the wake-up for what it
\* appended and the event loop has handled every wake-up, changes still
\* pending have a redraw requested for them.
C26_WakeUpLeadsToRedraw ==
    (/\ ~exiting
     /\ scene_changes # <<>>
     /\ dispatcher.at = "recv"
     /\ user_events = 0)
        => redraw_requested

\* C27: once the event loop has exited, run gets to its return through the
\* end of the dispatcher: when run waits for the dispatcher task and the
\* task waits in recv on the empty channel, the channel has no sender
\* left, so that recv gives None and the task ends with Ok.
C27_DispatcherEndsForRun ==
    (/\ run.at = "await_dispatcher"
     /\ dispatcher.at = "recv"
     /\ scene_channel = <<>>)
        => ~ApplicationContextAlive

\* `a` is the beginning of `b`.
IsPrefix(a, b) == Len(a) <= Len(b) /\ SubSeq(b, 1, Len(a)) = a

\* C28: a frame that is skipped or fails loses no scene change.  What a
\* frame has shown is the beginning of what the renderer holds, a frame
\* that returned Ok has shown all of it, and no step takes a change out of
\* the renderer's scene followed by the pending list: the changes a redraw
\* drains are in the renderer whatever render_and_present returns.
C28_FailedFrameKeepsChanges ==
    /\ [](/\ IsPrefix(presented, applied)
          /\ render_result = Some("Ok") => presented = applied)
    /\ [][IsPrefix(applied \o scene_changes,
                   applied' \o scene_changes')]_vars

\* C28 witness: a redraw whose frame returned Timeout has drained changes;
\* they are in the renderer and no frame has shown them yet.
C28_Witness ==
    /\ FrameReturned("Timeout")
    /\ applied # <<>>
    /\ presented = <<>>
    /\ scene_changes = <<>>

\* ------------------------------------------- claims on the vertex upload

\* A frame in which two shapes share the transform h1, with a shape of the
\* transform h2 between them.
SharedTransformShapes ==
    <<QuadsShape("h1", 2), QuadsShape("h2", 2), QuadsShape("h1", 1)>>

\* C30: the vertex buffer of every layer holds, for some transform handle,
\* the quads of the shapes with that handle in the order of prepare's
\* input, each quad as its corners 0, 1, 2, 3 with the quad's color; the
\* order of the layers is not given by the input: prepare of one shape
\* list can leave either of two layers first.
C30_VertexOrderWithinBatch ==
    /\ \A i \in DOMAIN quads_renderer.layers :
          \E h \in HandlesWithQuads :
              LET qs == QuadsOnHandle(h, Len(shapes))
                  vb == quads_renderer.layers[i].vertex_buffer
              IN  /\ Len(vb) = 4 * Len(qs)
                  /\ \A q \in DOMAIN qs, c \in 1..4 :
                        vb[4 * (q - 1) + c]
                           = ColorVertexNew(qs[q].vertices[c], qs[q].color)
    /\ \A first \in {2, 3} :
          \E order \in IterationOrders(DOMAIN into_group_map_by(
                                          QuadsShapesOf(SharedTransformShapes))) :
              prepare(quads_renderer, SharedTransformShapes,
                      order).self.layers[1].quad_count = first

\* C30 witness: the layer of the transform h2 comes first although h1 is
\* first in the input, and the layer of h1 holds the two quads of the
\* first shape followed by the quad of the third.
C30_Witness ==
    /\ shapes = SharedTransformShapes
    /\ Len(quads_renderer.layers) = 2
    /\ quads_renderer.layers[1].quad_count = 2
    /\ quads_renderer.layers[2].quad_count = 3
    /\ quads_renderer.layers[2].vertex_buffer[9]
          = ColorVertexNew(Quad(1).vertices[1], Quad(1).color)

\* ------------------------------------------- claims on the legacy render graph

\* The glyph has a cached image of a width and a height other than 0.
HasImage(i) ==
    /\ glyph_images[i] # None
    /\ glyph_images[i][1].placement.width # 0
    /\ glyph_images[i][1].placement.height # 0

\* C29: in the legacy render graph a glyph has a vertex buffer exactly
\* when it has a texture bind group, and both exactly when it has a cached
\* image of a width and a height other than 0; the draw loop's unwrap
\* never fails, and it issues one draw per glyph with such an image.
C29_VertexBuffersMatchBindGroups ==
    /\ DOMAIN graph.vertex_buffers = DOMAIN glyph_images
    /\ DOMAIN graph.texture_bind_groups = DOMAIN glyph_images
    /\ \A i \in DOMAIN glyph_images :
          /\ graph.vertex_buffers[i] # None <=> HasImage(i)
          /\ graph.texture_bind_groups[i] # None <=> HasImage(i)
    /\ ~graph.command_buffer.panicked
    /\ Cardinality(Positions(graph.command_buffer.commands, "draw_indexed"))
          = Cardinality({i \in DOMAIN glyph_images : HasImage(i)})

\* C29 witness: of three glyphs one has no image, one an image of no width
\* and one an image that is drawn.
C29_Witness ==
    /\ \E i \in DOMAIN glyph_images : glyph_images[i] = None
    /\ \E i \in DOMAIN glyph_images :
          /\ glyph_images[i] # None
          /\ glyph_images[i][1].placement.width = 0
    /\ Cardinality(Positions(graph.command_buffer.commands, "draw_indexed"))
          = 1

\* ------------------------------------------------------------ specifications

\* The renderer parts after construction.
InitRenderer ==
    /\ InitIndex
    /\ InitSelector
    /\ InitQuads
    /\ InitGlyph
    /\ InitPass
    /\ InitShell
    /\ InitTasks
    /\ InitGraph

\* No scene: every transform holds the same value.
Init ==
    /\ InitRenderer
    /\ InitSurface(<<MaxSize, MaxSize>>)
    /\ transforms = [h \in Handles |-> "mA"]

\* A scene whose transforms hold any values, equal or not.
InitScene ==
    /\ InitRenderer
    /\ InitSurface(<<MaxSize, MaxSize>>)
    /\ transforms \in {t \in [Handles -> MatrixValues] : t["h1"] = "mA"}

\* The index buffer of renderer.rs under any sequence of ensure_quads calls.
SpecIndex == Init /\ [][EnsureQuads]_vars

NextSelector ==
    \/ Classify
    \/ Convert
    \/ SelectPipeline

\* The rasterization selector applied to the glyphs of a scene.
SpecSelector == Init /\ [][NextSelector]_vars

\* The quad batcher under any sequence of prepare calls.
NextQuads ==
    \/ PrepareAny
    \/ BeginPass
    \/ QuadsRender
    \/ EndPass

SpecQuads == InitScene /\ [][NextQuads]_vars

NextBatchers ==
    \/ PrepareFrame
    \/ Batch
    \/ DropBatches

\* Both batchers building the batches of frames.
SpecBatchers == InitScene /\ [][NextBatchers]_vars

NextGlyph ==
    \/ Batch
    \/ AtlasGrow
    \/ DropBatches
    \/ BeginPass
    \/ SdfRender
    \/ EndPass

\* A window of any initial size.
InitWindow ==
    /\ InitRenderer
    /\ \E initial_size \in Sizes : InitSurface(initial_size)
    /\ transforms = [h \in Handles |-> "mA"]

NextRenderer ==
    \/ RenderAndPresentAny
    \/ ReconfigureSurface

\* The renderer of renderer.rs under any sequence of frames.
SpecRenderer == Init /\ [][NextRenderer]_vars

NextShell ==
    \/ CloseRequested
    \/ Resized
    \/ ScaleFactorChanged
    \/ RedrawRequested

\* The run loop of the shell handling window events.
SpecShell == InitWindow /\ [][NextShell]_vars

NextFrame ==
    \/ PrepareFrame
    \/ Batch
    \/ DropBatches
    \/ BeginPass
    \/ QuadsRender
    \/ SdfRenderAll
    \/ EndPass

\* Frames: both batchers build their batches, then a pass draws them.
SpecFrame == InitScene /\ [][NextFrame]_vars

NextPasses ==
    \/ RenderAndPresentFrame
    \/ Batch
    \/ DropBatches
    \/ BeginPass
    \/ SdfRenderAll
    \/ EndPass

\* Frames of render_and_present and passes drawing the glyph batches.
SpecPasses == Init /\ [][NextPasses]_vars

\* The renderer of renderer.rs under any sequence of frames, whatever the
\* order of its pipeline list.
SpecDispatch == Init /\ [][RenderAndPresentInAnyOrder]_vars

NextEvents ==
    \/ ForwardEvent
    \/ CloseRequested

\* The run loop forwarding window events to the application.
SpecEvents == InitWindow /\ [][NextEvents]_vars

NextScene ==
    \/ SendSceneChanges
    \/ DispatcherRecv
    \/ DispatcherExtend
    \/ DispatcherSendEvent
    \/ UserEvent
    \/ RedrawRequested

\* Scene changes on their way from the application to the renderer while
\* the event loop runs.
SpecScene == Init /\ [][NextScene]_vars

NextRun ==
    \/ SendSceneChanges
    \/ DispatcherRecv
    \/ DispatcherExtend
    \/ DispatcherSendEvent
    \/ DispatcherEnd
    \/ UserEvent
    \/ CloseRequested
    \/ ApplicationTaskFinishes
    \/ AbortApplication
    \/ AwaitDispatcher

\* Shell2::run from the event loop to its return.
SpecRun == InitWindow /\ [][NextRun]_vars

\* The legacy render graph under any sequence of texts.
SpecGraph == Init /\ [][RenderGraph]_vars

\* The glyph atlas batcher: batches are built, the atlas may grow, and a
\* pass draws a slice of the batches.
SpecGlyph == Init /\ [][NextGlyph]_vars

====
